---- MODULE Spec2Model ----
(***************************************************************************)
(* Subscription lifecycle engine: request path (create / cancel / delete), *)
(* the polling scheduler ("reaper"), the asynq task queue and the worker   *)
(* handlers (reminder, renewal, expiration), over the document store and   *)
(* the Redis marker store.                                                 *)
(*                                                                         *)
(* Time is counted in whole hours since an arbitrary local midnight.       *)
(*                                                                         *)
(* The sources hold the repositories, the scheduler, the worker and an     *)
(* implementation of the external subscription service that predates the   *)
(* bill ledger (services/subscription.go has no bill repository, although  *)
(* main.go:111 builds the service with one).  The subscription-document    *)
(* logic is taken from those sources; the bill keeping of the service      *)
(* (initial bill, refund on cancel) and the internal operations called by  *)
(* the worker (RenewSubscriptionInternal,                                  *)
(* MarkCancelledSubscriptionAsExpiredInternal) are not in the sources and  *)
(* are modelled from the specification, on top of the repository           *)
(* operations that are.                                                    *)
(***************************************************************************)
EXTENDS Integers, Sequences, FiniteSets, TLC

VARIABLES
    now,          \* wall clock, hours
    subs,         \* subscriptions collection: SubIds -> document or NoDoc
    bills,        \* bills collection: sequence of bill documents (insertion order)
    markers,      \* Redis keys reminder_sent:<sub>:<days> -> expiry instant
    queue,        \* asynq tasks (pending, active, archived)
    workers,      \* worker goroutines: position in the handler and its locals
    reqs,         \* request-path goroutines: position in the service call and locals
    reaperPc,     \* position of the scheduler inside pollSubscriptions
    nextTick,     \* instant of the scheduler's next ticker event
    reminderLog,  \* reminder emails dispatched: <<[sub, k, at]>>
    cancelWritten,\* history: subscriptions whose cancel update has been written
    faults,       \* injected failures used so far
    up,           \* the process (API server, scheduler, worker) is running
    stoppedAt,    \* instant of the process stop, -1 before any
    users,        \* users collection: ids of the stored users
    cal,          \* calendar date under advance: input, frequency and result
    pollFaults,   \* history: store and Redis calls of the scheduler that failed
    lastPoll,     \* history: what the previous poll saw; whether this poll sees the same
    loop          \* scheduler loop under cancellation: position, signal, ticker channel

vars == <<now, subs, bills, markers, queue, workers, reqs, reaperPc, nextTick,
          reminderLog, cancelWritten, faults, up, stoppedAt, users,
          cal,
          pollFaults,
          lastPoll,
          loop>>

----------------------------------------------------------------------------
(* Bounds of the model *)

MaxTime == 48
MaxCreateTime == 12
MaxFaults == 1
MaxEmails == 2
MaxBills == 3
OutageHours == 24

(* Program constants, in hours *)

RenewalHoursBeforeDay == 8
RenewalWindowStartHours == 1
SchedulerInterval == 12
UniqueTTL == 24
MarkerTTL == 24
DayHours == 24
WeekHours == 168
ReminderMaxRetry == 3
RenewalMaxRetry == 5
ExpirationMaxRetry == 3

ReminderDays == {1, 3, 7}

\* FindTemplateByDays with a case for three days
TemplateDays_WithThree == {1, 2, 3, 5, 7}

\* FindTemplateByDays: the offsets that have a template
TemplateDays == {1, 2, 5, 7}

SubIds == {"s1"}
Users == {"u1", "u2"}
Owners == {"u1"}
Workers == {"w1", "w2"}
Reqs == {"r1", "r2"}
Frequencies == {"daily"}

NoDoc == [status |-> "none"]

----------------------------------------------------------------------------
(* Date arithmetic *)

\* lib.CalcRenewalDate, daily and weekly branches (AddDate(0,0,1), AddDate(0,0,7))
CalcRenewalDate(start, frequency) ==
    CASE frequency = "daily"  -> start + DayHours
      [] frequency = "weekly" -> start + WeekHours
      [] OTHER                -> start

\* midnight of the calendar day holding instant t
StartOfDay(t) == (t \div DayHours) * DayHours

\* lib.DaysBetween: calendar-day difference after normalising both to midnight
DaysBetween(start, end) == (StartOfDay(end) - StartOfDay(start)) \div DayHours

----------------------------------------------------------------------------
(* Repositories *)

Exists(s) == subs[s].status # "none"

\* subscriptionRepository.Update as an upsert: a missing document is inserted
RepoUpdate_Upsert(s, doc) == [subs EXCEPT ![s] = doc]

\* subscriptionRepository.Update: $set of the whole document, filter on _id only;
\* when no document matches nothing is written and the caller gets not_found
RepoUpdate(s, doc) == IF Exists(s) THEN [subs EXCEPT ![s] = doc] ELSE subs

\* indexes of the paid bills of subscription s
PaidBills(s) == {i \in DOMAIN bills : bills[i].sub = s /\ bills[i].status = "paid"}

HasRecentBill(s) == PaidBills(s) # {}

\* GetRecentBill with the sort order reversed: the paid bill of s with the
\* smallest start_date
GetRecentBill_Oldest(s) ==
    CHOOSE i \in PaidBills(s) :
        \A j \in PaidBills(s) :
            \/ bills[j].startDate > bills[i].startDate
            \/ (bills[j].startDate = bills[i].startDate /\ j >= i)

\* billRepository.GetRecentBill: paid bill of s with the greatest start_date
\* (sort start_date desc, first document)
GetRecentBill(s) ==
    CHOOSE i \in PaidBills(s) :
        \A j \in PaidBills(s) :
            \/ bills[j].startDate < bills[i].startDate
            \/ (bills[j].startDate = bills[i].startDate /\ j >= i)

\* billRepository.Create that stores nothing
BillCreate_Lost(bill) == bills

\* billRepository.Create: InsertOne
BillCreate(bill) == Append(bills, bill)

\* subscriptionRepository.GetSubscriptionsDueForReminder
DueForReminder(t) ==
    {s \in DOMAIN subs :
        /\ subs[s].status = "active"
        /\ \E d \in ReminderDays :
              /\ subs[s].validTill >= StartOfDay(t + d * DayHours)
              /\ subs[s].validTill < StartOfDay(t + d * DayHours) + DayHours}

\* GetSubscriptionsDueForRenewal without the lower end of the window
DueForRenewal_NoLowerEnd(startTime, endTime) ==
    {s \in DOMAIN subs :
        /\ subs[s].status = "active"
        /\ subs[s].validTill <= endTime}

\* GetSubscriptionsDueForRenewal without the upper end of the window
DueForRenewal_NoUpperEnd(startTime, endTime) ==
    {s \in DOMAIN subs :
        /\ subs[s].status = "active"
        /\ subs[s].validTill >= startTime}

\* subscriptionRepository.GetSubscriptionsDueForRenewal
DueForRenewal(startTime, endTime) ==
    {s \in DOMAIN subs :
        /\ subs[s].status = "active"
        /\ subs[s].validTill >= startTime
        /\ subs[s].validTill <= endTime}

\* GetCancelledExpiredSubscriptions with the status filter on active
CancelledExpired_Active(t) ==
    {s \in DOMAIN subs : subs[s].status = "active" /\ subs[s].validTill < t}

\* subscriptionRepository.GetCancelledExpiredSubscriptions
CancelledExpired(t) ==
    {s \in DOMAIN subs : subs[s].status = "cancelled" /\ subs[s].validTill < t}

----------------------------------------------------------------------------
(* Task queue (asynq) *)

NoTask == [type |-> "none"]

Task(type, s, k, validTill, processAt) ==
    [type |-> type, sub |-> s, k |-> k, validTill |-> validTill,
     processAt |-> processAt, enqueuedAt |-> now, retried |-> 0,
     state |-> "pending"]

\* asynq.Unique(24h): the lock of (type, payload) is taken at enqueue, lasts the
\* TTL and is released when the task completes ("prevent duplicate pending tasks")
UniqueLocked(q, type, s, k, validTill) ==
    \E t \in q :
        /\ t.type = type /\ t.sub = s /\ t.k = k /\ t.validTill = validTill
        /\ now < t.enqueuedAt + UniqueTTL

\* client.Enqueue without asynq.Unique
Enqueue_NoUnique(q, t) == q \cup {t}

\* client.Enqueue with asynq.Unique: a duplicate is refused and the queue is unchanged
Enqueue(q, t) ==
    IF UniqueLocked(q, t.type, t.sub, t.k, t.validTill) THEN q ELSE q \cup {t}

MaxRetry(type) ==
    CASE type = "reminder"   -> ReminderMaxRetry
      [] type = "renewal"    -> RenewalMaxRetry
      [] type = "expiration" -> ExpirationMaxRetry

\* a service call that has returned is answered at once: the controller writes
\* the response before anything else is observed
Responded == \A r \in Reqs : reqs[r].pc # "done"

----------------------------------------------------------------------------
(* Scheduler *)

MarkerExists(s, k) == markers[<<s, k>>] > now

\* scheduleReminderTask
ReminderTaskFor(s) ==
    Task("reminder", s, DaysBetween(now, subs[s].validTill), subs[s].validTill, now)

\* scheduleRenewalTask without the replacement of a past process_at
RenewalProcessAt_NoClamp(validTill) == validTill - RenewalHoursBeforeDay

\* scheduleRenewalTask: process_at = valid_till - lead window, or now when past
RenewalProcessAt(validTill) ==
    IF validTill - RenewalHoursBeforeDay < now THEN now
    ELSE validTill - RenewalHoursBeforeDay

RenewalTaskFor(s) ==
    Task("renewal", s, 0, subs[s].validTill, RenewalProcessAt(subs[s].validTill))

\* scheduleExpirationTask
ExpirationTaskFor(s) == Task("expiration", s, 0, subs[s].validTill, now)

\* no poll seen yet; the polls are recorded where on is set
NoPoll == [on |-> FALSE, seen |-> <<>>, repeat |-> FALSE]

\* what a poll reads: the collection, the markers and the calendar day
PollView == <<subs, markers, StartOfDay(now)>>

\* Start: the ticker fires (the first poll runs at startup)
ReaperTick ==
    /\ up
    /\ Responded
    /\ UNCHANGED <<up, stoppedAt, users, cal, pollFaults, loop>>
    /\ reaperPc = "idle"
    /\ now >= nextTick
    /\ reaperPc' = "reminders"
    /\ nextTick' = now + SchedulerInterval
    /\ lastPoll' = IF lastPoll.on
                   THEN [on |-> TRUE, seen |-> PollView,
                         repeat |-> lastPoll.seen = PollView]
                   ELSE lastPoll
    /\ UNCHANGED <<now, subs, bills, markers, queue, workers, reqs, reminderLog,
                   cancelWritten, faults>>

\* handleReminderTasks
ReminderPass ==
    /\ up
    /\ Responded
    /\ UNCHANGED <<up, stoppedAt, users, cal, pollFaults, lastPoll, loop>>
    /\ reaperPc = "reminders"
    /\ LET due == {s \in DueForReminder(now) :
                      ~MarkerExists(s, DaysBetween(now, subs[s].validTill))}
       IN queue' = queue \cup
              {ReminderTaskFor(s) : s \in
                  {x \in due : Enqueue(queue, ReminderTaskFor(x)) # queue}}
    /\ reaperPc' = "renewals"
    /\ UNCHANGED <<now, subs, bills, markers, workers, reqs, nextTick, reminderLog,
                   cancelWritten, faults>>

\* handleRenewalTasks
RenewalPass ==
    /\ up
    /\ Responded
    /\ UNCHANGED <<up, stoppedAt, users, cal, pollFaults, lastPoll, loop>>
    /\ reaperPc = "renewals"
    /\ LET due == DueForRenewal(now + RenewalWindowStartHours,
                                now + RenewalHoursBeforeDay)
       IN queue' = queue \cup
              {RenewalTaskFor(s) : s \in
                  {x \in due : Enqueue(queue, RenewalTaskFor(x)) # queue}}
    /\ reaperPc' = "expirations"
    /\ UNCHANGED <<now, subs, bills, markers, workers, reqs, nextTick, reminderLog,
                   cancelWritten, faults>>

\* handleExpirationTasks that also stores status expired itself
ExpirationPass_MarksExpired ==
    /\ up
    /\ Responded
    /\ UNCHANGED <<up, stoppedAt, users, cal, pollFaults, lastPoll, loop>>
    /\ reaperPc = "expirations"
    /\ LET due == CancelledExpired(now)
       IN /\ queue' = queue \cup
                 {ExpirationTaskFor(s) : s \in
                     {x \in due : Enqueue(queue, ExpirationTaskFor(x)) # queue}}
          /\ subs' = [s \in DOMAIN subs |->
                         IF s \in due THEN [subs[s] EXCEPT !.status = "expired"]
                         ELSE subs[s]]
    /\ reaperPc' = "idle"
    /\ UNCHANGED <<now, bills, markers, workers, reqs, nextTick, reminderLog,
                   cancelWritten, faults>>

\* handleExpirationTasks
ExpirationPass ==
    /\ up
    /\ Responded
    /\ UNCHANGED <<up, stoppedAt, users, cal, pollFaults, lastPoll, loop>>
    /\ reaperPc = "expirations"
    /\ LET due == CancelledExpired(now)
       IN queue' = queue \cup
              {ExpirationTaskFor(s) : s \in
                  {x \in due : Enqueue(queue, ExpirationTaskFor(x)) # queue}}
    /\ reaperPc' = "idle"
    /\ UNCHANGED <<now, subs, bills, markers, workers, reqs, nextTick, reminderLog,
                   cancelWritten, faults>>
----------------------------------------------------------------------------
(* Worker *)

NoBill == [status |-> "none"]

IdleWorker == [pc |-> "idle", task |-> NoTask, doc |-> NoDoc, bill |-> NoBill]

\* the handler returned nil: the task leaves the queue and frees its unique lock
Completed(q, t) == q \ {t}

\* the handler returned an error: retry while the budget lasts, then archive
Failed(q, t) ==
    (q \ {t}) \cup
        {IF t.retried < MaxRetry(t.type)
         THEN [t EXCEPT !.state = "pending", !.retried = @ + 1, !.processAt = now]
         ELSE [t EXCEPT !.state = "archived"]}

\* a worker goroutine takes a pending task whose process_at has come
\* (idle goroutines are interchangeable: the first idle one takes it)
Deliver(w) ==
    /\ up
    /\ Responded
    /\ UNCHANGED <<up, stoppedAt, users, cal, pollFaults, lastPoll, loop>>
    /\ workers[w].pc = "idle"
    /\ w = CHOOSE x \in Workers : workers[x].pc = "idle"
    /\ \E t \in queue :
          /\ t.state = "pending"
          /\ t.processAt <= now
          /\ LET a == [t EXCEPT !.state = "active"]
             IN /\ queue' = (queue \ {t}) \cup {a}
                /\ workers' = [workers EXCEPT ![w] = [IdleWorker EXCEPT !.pc = "fetch", !.task = a]]
    /\ UNCHANGED <<now, subs, bills, markers, reqs, reaperPc, nextTick, reminderLog,
                   cancelWritten, faults>>

\* handleSubscriptionReminder up to the call of sendReminderNotification
ReminderFetch(w) ==
    LET t == workers[w].task IN
    /\ up
    /\ Responded
    /\ UNCHANGED <<up, stoppedAt, users, cal, pollFaults, lastPoll, loop>>
    /\ workers[w].pc = "fetch"
    /\ t.type = "reminder"
    /\ \/ /\ IF ~Exists(t.sub)
             THEN /\ queue' = Failed(queue, t)
                  /\ workers' = [workers EXCEPT ![w] = IdleWorker]
             ELSE IF subs[t.sub].status # "active"
             THEN /\ queue' = Completed(queue, t)
                  /\ workers' = [workers EXCEPT ![w] = IdleWorker]
             ELSE /\ queue' = queue
                  /\ workers' = [workers EXCEPT ![w].pc = "rem_send", ![w].doc = subs[t.sub]]
          /\ UNCHANGED faults
       \/ /\ faults < MaxFaults
          /\ faults' = faults + 1
          /\ queue' = Failed(queue, t)
          /\ workers' = [workers EXCEPT ![w] = IdleWorker]
    /\ UNCHANGED <<now, subs, bills, markers, reqs, reaperPc, nextTick, reminderLog,
                   cancelWritten>>

\* sendReminderNotification that sets the marker before the dispatch: a failed
\* dispatch leaves the marker behind
ReminderSend_MarksFirst(w) ==
    LET t == workers[w].task IN
    /\ up
    /\ Responded
    /\ UNCHANGED <<up, stoppedAt, users, cal, pollFaults, lastPoll, loop>>
    /\ workers[w].pc = "rem_send"
    /\ \/ /\ workers[w].doc.userId \in users
          /\ t.k \in TemplateDays
          /\ Len(reminderLog) < MaxEmails
          /\ reminderLog' = Append(reminderLog, [sub |-> t.sub, k |-> t.k, at |-> now])
          /\ workers' = [workers EXCEPT ![w].pc = "rem_mark"]
          /\ UNCHANGED <<queue, faults, markers>>
       \/ /\ \/ workers[w].doc.userId \notin users
             \/ t.k \notin TemplateDays
          /\ queue' = Failed(queue, t)
          /\ workers' = [workers EXCEPT ![w] = IdleWorker]
          /\ UNCHANGED <<reminderLog, faults, markers>>
       \/ /\ workers[w].doc.userId \in users
          /\ t.k \in TemplateDays
          /\ faults < MaxFaults
          /\ faults' = faults + 1
          /\ markers' = [markers EXCEPT ![<<t.sub, t.k>>] = now + MarkerTTL]
          /\ queue' = Failed(queue, t)
          /\ workers' = [workers EXCEPT ![w] = IdleWorker]
          /\ UNCHANGED reminderLog
    /\ UNCHANGED <<now, subs, bills, reqs, reaperPc, nextTick, cancelWritten>>

\* sendReminderNotification: user fetch, template lookup and SMTP dispatch
ReminderSend(w) ==
    LET t == workers[w].task IN
    /\ up
    /\ Responded
    /\ UNCHANGED <<up, stoppedAt, users, cal, pollFaults, lastPoll, loop>>
    /\ workers[w].pc = "rem_send"
    /\ \/ /\ workers[w].doc.userId \in users
          /\ t.k \in TemplateDays
          /\ Len(reminderLog) < MaxEmails
          /\ reminderLog' = Append(reminderLog, [sub |-> t.sub, k |-> t.k, at |-> now])
          /\ workers' = [workers EXCEPT ![w].pc = "rem_mark"]
          /\ UNCHANGED <<queue, faults>>
       \/ /\ \/ workers[w].doc.userId \notin users
             \/ t.k \notin TemplateDays
          /\ queue' = Failed(queue, t)
          /\ workers' = [workers EXCEPT ![w] = IdleWorker]
          /\ UNCHANGED <<reminderLog, faults>>
       \/ /\ workers[w].doc.userId \in users
          /\ t.k \in TemplateDays
          /\ faults < MaxFaults
          /\ faults' = faults + 1
          /\ queue' = Failed(queue, t)
          /\ workers' = [workers EXCEPT ![w] = IdleWorker]
          /\ UNCHANGED reminderLog
    /\ UNCHANGED <<now, subs, bills, markers, reqs, reaperPc, nextTick, cancelWritten>>

\* sendReminderNotification: SetEx of the marker; its failure is only logged
ReminderMark(w) ==
    LET t == workers[w].task IN
    /\ up
    /\ Responded
    /\ UNCHANGED <<up, stoppedAt, users, cal, pollFaults, lastPoll, loop>>
    /\ workers[w].pc = "rem_mark"
    /\ \/ /\ markers' = [markers EXCEPT ![<<t.sub, t.k>>] = now + MarkerTTL]
          /\ UNCHANGED faults
       \/ /\ faults < MaxFaults
          /\ faults' = faults + 1
          /\ UNCHANGED markers
    /\ queue' = Completed(queue, t)
    /\ workers' = [workers EXCEPT ![w] = IdleWorker]
    /\ UNCHANGED <<now, subs, bills, reqs, reaperPc, nextTick, reminderLog,
                   cancelWritten>>

\* handleSubscriptionRenewal without the status check
RenewalFetch_NoStatusCheck(w) ==
    LET t == workers[w].task IN
    /\ up
    /\ Responded
    /\ UNCHANGED <<up, stoppedAt, users, cal, pollFaults, lastPoll, loop>>
    /\ workers[w].pc = "fetch"
    /\ t.type = "renewal"
    /\ \/ /\ IF ~Exists(t.sub)
             THEN /\ queue' = Failed(queue, t)
                  /\ workers' = [workers EXCEPT ![w] = IdleWorker]
             ELSE IF subs[t.sub].validTill > now + RenewalHoursBeforeDay
             THEN /\ queue' = Completed(queue, t)
                  /\ workers' = [workers EXCEPT ![w] = IdleWorker]
             ELSE /\ queue' = queue
                  /\ workers' = [workers EXCEPT ![w].pc = "ren_check"]
          /\ UNCHANGED faults
       \/ /\ faults < MaxFaults
          /\ faults' = faults + 1
          /\ queue' = Failed(queue, t)
          /\ workers' = [workers EXCEPT ![w] = IdleWorker]
    /\ UNCHANGED <<now, subs, bills, markers, reqs, reaperPc, nextTick, reminderLog,
                   cancelWritten>>

\* handleSubscriptionRenewal with the window check on the date of the payload
RenewalFetch_UsesPayload(w) ==
    LET t == workers[w].task IN
    /\ up
    /\ Responded
    /\ UNCHANGED <<up, stoppedAt, users, cal, pollFaults, lastPoll, loop>>
    /\ workers[w].pc = "fetch"
    /\ t.type = "renewal"
    /\ \/ /\ IF ~Exists(t.sub)
             THEN /\ queue' = Failed(queue, t)
                  /\ workers' = [workers EXCEPT ![w] = IdleWorker]
             ELSE IF \/ subs[t.sub].status # "active"
                     \/ t.validTill > now + RenewalHoursBeforeDay
             THEN /\ queue' = Completed(queue, t)
                  /\ workers' = [workers EXCEPT ![w] = IdleWorker]
             ELSE /\ queue' = queue
                  /\ workers' = [workers EXCEPT ![w].pc = "ren_check"]
          /\ UNCHANGED faults
       \/ /\ faults < MaxFaults
          /\ faults' = faults + 1
          /\ queue' = Failed(queue, t)
          /\ workers' = [workers EXCEPT ![w] = IdleWorker]
    /\ UNCHANGED <<now, subs, bills, markers, reqs, reaperPc, nextTick, reminderLog,
                   cancelWritten>>

\* handleSubscriptionRenewal up to the call of RenewSubscriptionInternal:
\* fetch, status check, renewal-window check
RenewalFetch(w) ==
    LET t == workers[w].task IN
    /\ up
    /\ Responded
    /\ UNCHANGED <<up, stoppedAt, users, cal, pollFaults, lastPoll, loop>>
    /\ workers[w].pc = "fetch"
    /\ t.type = "renewal"
    /\ \/ /\ IF ~Exists(t.sub)
             THEN /\ queue' = Failed(queue, t)
                  /\ workers' = [workers EXCEPT ![w] = IdleWorker]
             ELSE IF \/ subs[t.sub].status # "active"
                     \/ subs[t.sub].validTill > now + RenewalHoursBeforeDay
             THEN /\ queue' = Completed(queue, t)
                  /\ workers' = [workers EXCEPT ![w] = IdleWorker]
             ELSE /\ queue' = queue
                  /\ workers' = [workers EXCEPT ![w].pc = "ren_check"]
          /\ UNCHANGED faults
       \/ /\ faults < MaxFaults
          /\ faults' = faults + 1
          /\ queue' = Failed(queue, t)
          /\ workers' = [workers EXCEPT ![w] = IdleWorker]
    /\ UNCHANGED <<now, subs, bills, markers, reqs, reaperPc, nextTick, reminderLog,
                   cancelWritten>>

\* the bill a renewal adds: starts where the latest paid bill ends, one period long
RenewalBill(s) ==
    LET last == bills[GetRecentBill(s)]
    IN [sub |-> s, startDate |-> last.endDate,
        endDate |-> CalcRenewalDate(last.endDate, subs[s].frequency),
        status |-> "paid"]

\* RenewSubscriptionInternal holds: subscription active, and its latest paid
\* bill has started
CanRenew(s) ==
    /\ subs[s].status = "active"
    /\ HasRecentBill(s)
    /\ bills[GetRecentBill(s)].startDate <= now

\* RenewSubscriptionInternal: read of the subscription and of its latest paid
\* bill, precondition check; any error fails the task
RenewCheck(w) ==
    LET t == workers[w].task IN
    /\ up
    /\ Responded
    /\ UNCHANGED <<up, stoppedAt, users, cal, pollFaults, lastPoll, loop>>
    /\ workers[w].pc = "ren_check"
    /\ IF Exists(t.sub) /\ CanRenew(t.sub)
       THEN /\ queue' = queue
            /\ workers' = [workers EXCEPT ![w].pc = "ren_bill",
                                          ![w].doc = subs[t.sub],
                                          ![w].bill = RenewalBill(t.sub)]
       ELSE /\ queue' = Failed(queue, t)
            /\ workers' = [workers EXCEPT ![w] = IdleWorker]
    /\ UNCHANGED <<now, subs, bills, markers, reqs, reaperPc, nextTick, reminderLog,
                   cancelWritten, faults>>

\* RenewSubscriptionInternal: insert of the new paid bill
RenewBill(w) ==
    /\ up
    /\ Responded
    /\ UNCHANGED <<up, stoppedAt, users, cal, pollFaults, lastPoll, loop>>
    /\ workers[w].pc = "ren_bill"
    /\ Len(bills) < MaxBills
    /\ bills' = BillCreate(workers[w].bill)
    /\ workers' = [workers EXCEPT ![w].pc = "ren_update"]
    /\ UNCHANGED <<now, subs, markers, queue, reqs, reaperPc, nextTick, reminderLog,
                   cancelWritten, faults>>

\* RenewSubscriptionInternal: update of the subscription with the new valid_till;
\* an error fails the task, success hands over to the confirmation
RenewUpdate(w) ==
    LET t == workers[w].task
        doc == [workers[w].doc EXCEPT !.validTill = workers[w].bill.endDate]
    IN
    /\ up
    /\ Responded
    /\ UNCHANGED <<up, stoppedAt, users, cal, pollFaults, lastPoll, loop>>
    /\ workers[w].pc = "ren_update"
    /\ \/ /\ Exists(t.sub)
          /\ subs' = RepoUpdate(t.sub, doc)
          /\ queue' = queue
          /\ workers' = [workers EXCEPT ![w].pc = "ren_confirm"]
          /\ UNCHANGED faults
       \/ /\ ~Exists(t.sub)
          /\ subs' = RepoUpdate(t.sub, doc)
          /\ queue' = Failed(queue, t)
          /\ workers' = [workers EXCEPT ![w] = IdleWorker]
          /\ UNCHANGED faults
       \/ /\ faults < MaxFaults
          /\ faults' = faults + 1
          /\ queue' = Failed(queue, t)
          /\ workers' = [workers EXCEPT ![w] = IdleWorker]
          /\ UNCHANGED subs
    /\ UNCHANGED <<now, bills, markers, reqs, reaperPc, nextTick, reminderLog,
                   cancelWritten>>

\* handleSubscriptionRenewal after the renew, returning the error of the user
\* fetch and of the confirmation email
RenewConfirm_ReturnsError(w) ==
    LET t == workers[w].task IN
    /\ up
    /\ Responded
    /\ UNCHANGED <<up, stoppedAt, users, cal, pollFaults, lastPoll, loop>>
    /\ workers[w].pc = "ren_confirm"
    /\ \/ /\ workers[w].doc.userId \in users
          /\ queue' = Completed(queue, t)
          /\ UNCHANGED faults
       \/ /\ workers[w].doc.userId \notin users
          /\ queue' = Failed(queue, t)
          /\ UNCHANGED faults
       \/ /\ workers[w].doc.userId \in users
          /\ faults < MaxFaults
          /\ faults' = faults + 1
          /\ queue' = Failed(queue, t)
    /\ workers' = [workers EXCEPT ![w] = IdleWorker]
    /\ UNCHANGED <<now, subs, bills, markers, reqs, reaperPc, nextTick, reminderLog,
                   cancelWritten>>

\* handleSubscriptionRenewal after the renew: user fetch and confirmation email;
\* a missing user and a failed dispatch are logged and the handler returns nil
RenewConfirm(w) ==
    LET t == workers[w].task IN
    /\ up
    /\ Responded
    /\ UNCHANGED <<up, stoppedAt, users, cal, pollFaults, lastPoll, loop>>
    /\ workers[w].pc = "ren_confirm"
    /\ \/ UNCHANGED faults
       \/ /\ workers[w].doc.userId \in users
          /\ faults < MaxFaults
          /\ faults' = faults + 1
    /\ queue' = Completed(queue, t)
    /\ workers' = [workers EXCEPT ![w] = IdleWorker]
    /\ UNCHANGED <<now, subs, bills, markers, reqs, reaperPc, nextTick, reminderLog,
                   cancelWritten>>

\* handleSubscriptionExpiration up to the call of
\* MarkCancelledSubscriptionAsExpiredInternal: fetch, status check, valid_till check
ExpirationFetch(w) ==
    LET t == workers[w].task IN
    /\ up
    /\ Responded
    /\ UNCHANGED <<up, stoppedAt, users, cal, pollFaults, lastPoll, loop>>
    /\ workers[w].pc = "fetch"
    /\ t.type = "expiration"
    /\ \/ /\ IF ~Exists(t.sub)
             THEN /\ queue' = Failed(queue, t)
                  /\ workers' = [workers EXCEPT ![w] = IdleWorker]
             ELSE IF \/ subs[t.sub].status # "cancelled"
                     \/ subs[t.sub].validTill > now
             THEN /\ queue' = Completed(queue, t)
                  /\ workers' = [workers EXCEPT ![w] = IdleWorker]
             ELSE /\ queue' = queue
                  /\ workers' = [workers EXCEPT ![w].pc = "exp_mark"]
          /\ UNCHANGED faults
       \/ /\ faults < MaxFaults
          /\ faults' = faults + 1
          /\ queue' = Failed(queue, t)
          /\ workers' = [workers EXCEPT ![w] = IdleWorker]
    /\ UNCHANGED <<now, subs, bills, markers, reqs, reaperPc, nextTick, reminderLog,
                   cancelWritten>>

\* MarkCancelledSubscriptionAsExpiredInternal: read of the subscription; a stored
\* status other than cancelled is a conflict and fails the task
ExpirationRead(w) ==
    LET t == workers[w].task IN
    /\ up
    /\ Responded
    /\ UNCHANGED <<up, stoppedAt, users, cal, pollFaults, lastPoll, loop>>
    /\ workers[w].pc = "exp_mark"
    /\ IF Exists(t.sub) /\ subs[t.sub].status = "cancelled"
       THEN /\ queue' = queue
            /\ workers' = [workers EXCEPT ![w].pc = "exp_write", ![w].doc = subs[t.sub]]
       ELSE /\ queue' = Failed(queue, t)
            /\ workers' = [workers EXCEPT ![w] = IdleWorker]
    /\ UNCHANGED <<now, subs, bills, markers, reqs, reaperPc, nextTick, reminderLog,
                   cancelWritten, faults>>

\* MarkCancelledSubscriptionAsExpiredInternal: update of the subscription with
\* status expired
ExpirationWrite(w) ==
    LET t == workers[w].task IN
    /\ up
    /\ Responded
    /\ UNCHANGED <<up, stoppedAt, users, cal, pollFaults, lastPoll, loop>>
    /\ workers[w].pc = "exp_write"
    /\ IF Exists(t.sub)
       THEN /\ subs' = RepoUpdate(t.sub, [workers[w].doc EXCEPT !.status = "expired"])
            /\ queue' = Completed(queue, t)
       ELSE /\ subs' = RepoUpdate(t.sub, [workers[w].doc EXCEPT !.status = "expired"])
            /\ queue' = Failed(queue, t)
    /\ workers' = [workers EXCEPT ![w] = IdleWorker]
    /\ UNCHANGED <<now, bills, markers, reqs, reaperPc, nextTick, reminderLog,
                   cancelWritten, faults>>
----------------------------------------------------------------------------
(* Request path: SubscriptionServiceExternal *)

IdleReq == [pc |-> "idle", op |-> "none", sub |-> "none", user |-> "none",
            doc |-> NoDoc, result |-> "none", data |-> {}]

\* the service call returns its outcome to the controller
Done(req, result) ==
    [IdleReq EXCEPT !.pc = "done", !.op = req.op, !.sub = req.sub,
                    !.user = req.user, !.result = result]

\* the controller writes the response and the request ends
Respond(r) ==
    /\ reqs[r].pc = "done"
    /\ reqs' = [reqs EXCEPT ![r] = IdleReq]
    /\ UNCHANGED <<up, stoppedAt, users, cal, pollFaults, lastPoll, loop>>
    /\ UNCHANGED <<now, subs, bills, markers, queue, workers, reaperPc, nextTick,
                   reminderLog, cancelWritten, faults>>

\* ids never handed out: no document, no bill, no request working on it
FreshIds ==
    {s \in SubIds :
        /\ ~Exists(s)
        /\ \A i \in DOMAIN bills : bills[i].sub # s
        /\ \A r \in Reqs : reqs[r].sub # s
        /\ s \notin cancelWritten}

\* CreateSubscription without the assignment of the principal: the user id of
\* the draft is kept
NewSubscription_DraftUser(u, f) ==
    LET validTill == CalcRenewalDate(now, f)
    IN [status |-> IF validTill < now THEN "expired" ELSE "active",
        validTill |-> validTill, userId |-> "u2", frequency |-> f]

\* CreateSubscription: the document built from the request
NewSubscription(u, f) ==
    LET validTill == CalcRenewalDate(now, f)
    IN [status |-> IF validTill < now THEN "expired" ELSE "active",
        validTill |-> validTill, userId |-> u, frequency |-> f]

\* Subscription.Validate, the valid_till rule
ValidDoc(doc) == doc.validTill > 0 /\ doc.validTill >= now

\* the paid bill of the first period
InitialBill(s, doc) ==
    [sub |-> s, startDate |-> now, endDate |-> doc.validTill, status |-> "paid"]

\* CreateSubscription, first write: validation, then the bill of the first period
\* (idle request goroutines are interchangeable: the first idle one serves)
CreateBill(r) ==
    /\ up
    /\ Responded
    /\ UNCHANGED <<up, stoppedAt, users, cal, pollFaults, lastPoll, loop>>
    /\ reqs[r].pc = "idle"
    /\ r = CHOOSE x \in Reqs : reqs[x].pc = "idle"
    /\ now <= MaxCreateTime
    /\ Len(bills) < MaxBills
    /\ \E u \in Owners, f \in Frequencies, s \in FreshIds :
          LET doc == NewSubscription(u, f) IN
          IF ValidDoc(doc)
          THEN /\ bills' = BillCreate(InitialBill(s, doc))
               /\ reqs' = [reqs EXCEPT ![r] = [pc |-> "cr_sub", op |-> "create",
                                               sub |-> s, user |-> u, doc |-> doc,
                                               result |-> "none", data |-> {}]]
          ELSE /\ bills' = bills
               /\ reqs' = [reqs EXCEPT ![r] =
                              Done([IdleReq EXCEPT !.op = "create", !.user = u],
                                   "validation")]
    /\ UNCHANGED <<now, subs, markers, queue, workers, reaperPc, nextTick,
                   reminderLog, cancelWritten, faults>>

\* CreateSubscription, second write: subscriptionRepository.Create
CreateSub(r) ==
    /\ up
    /\ Responded
    /\ UNCHANGED <<up, stoppedAt, users, cal, pollFaults, lastPoll, loop>>
    /\ reqs[r].pc = "cr_sub"
    /\ \/ /\ subs' = [subs EXCEPT ![reqs[r].sub] = reqs[r].doc]
          /\ reqs' = [reqs EXCEPT ![r] = Done(reqs[r], "ok")]
          /\ UNCHANGED faults
       \/ /\ faults < MaxFaults
          /\ faults' = faults + 1
          /\ reqs' = [reqs EXCEPT ![r] = Done(reqs[r], "internal")]
          /\ UNCHANGED subs
    /\ UNCHANGED <<now, bills, markers, queue, workers, reaperPc, nextTick,
                   reminderLog, cancelWritten>>

\* CancelSubscription without the status check
CancelRead_NoStatusCheck(r) ==
    /\ up
    /\ Responded
    /\ UNCHANGED <<up, stoppedAt, users, cal, pollFaults, lastPoll, loop>>
    /\ reqs[r].pc = "idle"
    /\ r = CHOOSE x \in Reqs : reqs[x].pc = "idle"
    /\ \E u \in Users, s \in SubIds :
          LET req == [IdleReq EXCEPT !.op = "cancel", !.sub = s, !.user = u] IN
          reqs' = [reqs EXCEPT ![r] =
                      IF ~Exists(s) THEN Done(req, "not_found")
                      ELSE IF subs[s].userId # u THEN Done(req, "forbidden")
                      ELSE [req EXCEPT !.pc = "can_refund", !.doc = subs[s]]]
    /\ UNCHANGED <<now, subs, bills, markers, queue, workers, reaperPc, nextTick,
                   reminderLog, cancelWritten, faults>>

\* CancelSubscription: GetByID, ownership check, status check
CancelRead(r) ==
    /\ up
    /\ Responded
    /\ UNCHANGED <<up, stoppedAt, users, cal, pollFaults, lastPoll, loop>>
    /\ reqs[r].pc = "idle"
    /\ r = CHOOSE x \in Reqs : reqs[x].pc = "idle"
    /\ \E u \in Users, s \in SubIds :
          LET req == [IdleReq EXCEPT !.op = "cancel", !.sub = s, !.user = u] IN
          reqs' = [reqs EXCEPT ![r] =
                      IF ~Exists(s) THEN Done(req, "not_found")
                      ELSE IF subs[s].userId # u THEN Done(req, "forbidden")
                      ELSE IF subs[s].status # "active" THEN Done(req, "conflict")
                      ELSE [req EXCEPT !.pc = "can_refund", !.doc = subs[s]]]
    /\ UNCHANGED <<now, subs, bills, markers, queue, workers, reaperPc, nextTick,
                   reminderLog, cancelWritten, faults>>

\* the bills after the refund of bill i
Refund(i) == [bills EXCEPT ![i].status = "refunded"]

\* CancelSubscription, bill keeping: a latest paid bill that has not started is
\* refunded and valid_till falls back to the end of the paid bill before it
CancelRefund(r) ==
    LET s == reqs[r].sub IN
    /\ up
    /\ Responded
    /\ UNCHANGED <<up, stoppedAt, users, cal, pollFaults, lastPoll, loop>>
    /\ reqs[r].pc = "can_refund"
    /\ IF HasRecentBill(s) /\ bills[GetRecentBill(s)].startDate > now
       THEN LET i == GetRecentBill(s)
                rest == PaidBills(s) \ {i}
                prev == CHOOSE j \in rest :
                            \A k \in rest : bills[k].startDate <= bills[j].startDate
            IN /\ bills' = Refund(i)
               /\ reqs' = [reqs EXCEPT ![r].pc = "can_write",
                                       ![r].doc.validTill =
                                           IF rest = {} THEN @ ELSE bills[prev].endDate]
       ELSE /\ bills' = bills
            /\ reqs' = [reqs EXCEPT ![r].pc = "can_write"]
    /\ UNCHANGED <<now, subs, markers, queue, workers, reaperPc, nextTick,
                   reminderLog, cancelWritten, faults>>

\* CancelSubscription without the status assignment: the document is written
\* back as read
CancelWrite_KeepsStatus(r) ==
    LET s == reqs[r].sub IN
    /\ up
    /\ Responded
    /\ UNCHANGED <<up, stoppedAt, users, cal, pollFaults, lastPoll, loop>>
    /\ reqs[r].pc = "can_write"
    /\ IF Exists(s)
       THEN /\ subs' = RepoUpdate(s, reqs[r].doc)
            /\ cancelWritten' = cancelWritten \cup {s}
            /\ reqs' = [reqs EXCEPT ![r] = Done(reqs[r], "ok")]
       ELSE /\ subs' = subs
            /\ cancelWritten' = cancelWritten
            /\ reqs' = [reqs EXCEPT ![r] = Done(reqs[r], "not_found")]
    /\ UNCHANGED <<now, bills, markers, queue, workers, reaperPc, nextTick,
                   reminderLog, faults>>

\* CancelSubscription: status := cancelled, subscriptionRepository.Update
CancelWrite(r) ==
    LET s == reqs[r].sub IN
    /\ up
    /\ Responded
    /\ UNCHANGED <<up, stoppedAt, users, cal, pollFaults, lastPoll, loop>>
    /\ reqs[r].pc = "can_write"
    /\ IF Exists(s)
       THEN /\ subs' = RepoUpdate(s, [reqs[r].doc EXCEPT !.status = "cancelled"])
            /\ cancelWritten' = cancelWritten \cup {s}
            /\ reqs' = [reqs EXCEPT ![r] = Done(reqs[r], "ok")]
       ELSE /\ subs' = RepoUpdate(s, [reqs[r].doc EXCEPT !.status = "cancelled"])
            /\ cancelWritten' = cancelWritten
            /\ reqs' = [reqs EXCEPT ![r] = Done(reqs[r], "not_found")]
    /\ UNCHANGED <<now, bills, markers, queue, workers, reaperPc, nextTick,
                   reminderLog, faults>>

\* DeleteSubscription: GetByID, ownership check, refusal of an active subscription
DeleteRead(r) ==
    /\ up
    /\ Responded
    /\ UNCHANGED <<up, stoppedAt, users, cal, pollFaults, lastPoll, loop>>
    /\ reqs[r].pc = "idle"
    /\ r = CHOOSE x \in Reqs : reqs[x].pc = "idle"
    /\ \E u \in Users, s \in SubIds :
          LET req == [IdleReq EXCEPT !.op = "delete", !.sub = s, !.user = u] IN
          reqs' = [reqs EXCEPT ![r] =
                      IF ~Exists(s) THEN Done(req, "not_found")
                      ELSE IF subs[s].userId # u THEN Done(req, "forbidden")
                      ELSE IF subs[s].status = "active" THEN Done(req, "conflict")
                      ELSE [req EXCEPT !.pc = "del_write"]]
    /\ UNCHANGED <<now, subs, bills, markers, queue, workers, reaperPc, nextTick,
                   reminderLog, cancelWritten, faults>>

\* DeleteSubscription: subscriptionRepository.Delete
DeleteWrite(r) ==
    LET s == reqs[r].sub IN
    /\ up
    /\ Responded
    /\ UNCHANGED <<up, stoppedAt, users, cal, pollFaults, lastPoll, loop>>
    /\ reqs[r].pc = "del_write"
    /\ subs' = [subs EXCEPT ![s] = NoDoc]
    /\ reqs' = [reqs EXCEPT ![r] = Done(reqs[r], IF Exists(s) THEN "ok" ELSE "not_found")]
    /\ UNCHANGED <<now, bills, markers, queue, workers, reaperPc, nextTick,
                   reminderLog, cancelWritten, faults>>
----------------------------------------------------------------------------
(* Request path: UserService *)

\* subscriptionRepository.GetByUserID
GetByUserID(u) == {s \in DOMAIN subs : Exists(s) /\ subs[s].userId = u}

\* DeleteUser: request for one's own profile only, then userRepository.FindByID
\* (the profiles asked for are those of users who create subscriptions)
DeleteUserFind(r) ==
    /\ up
    /\ Responded
    /\ UNCHANGED <<up, stoppedAt, users, cal, pollFaults, lastPoll, loop>>
    /\ reqs[r].pc = "idle"
    /\ r = CHOOSE x \in Reqs : reqs[x].pc = "idle"
    /\ \E id \in Owners, claimed \in Users :
          LET req == [IdleReq EXCEPT !.op = "delete_user", !.user = claimed] IN
          reqs' = [reqs EXCEPT ![r] =
                      IF id # claimed THEN Done(req, "forbidden")
                      ELSE IF id \notin users THEN Done(req, "not_found")
                      ELSE [req EXCEPT !.pc = "du_check"]]
    /\ UNCHANGED <<now, subs, bills, markers, queue, workers, reaperPc, nextTick,
                   reminderLog, cancelWritten, faults>>

\* DeleteUser: refusal while the user has any subscription
DeleteUserCheck(r) ==
    /\ up
    /\ Responded
    /\ UNCHANGED <<up, stoppedAt, users, cal, pollFaults, lastPoll, loop>>
    /\ reqs[r].pc = "du_check"
    /\ reqs' = [reqs EXCEPT ![r] =
                   IF GetByUserID(reqs[r].user) # {} THEN Done(reqs[r], "conflict")
                   ELSE [reqs[r] EXCEPT !.pc = "du_write"]]
    /\ UNCHANGED <<now, subs, bills, markers, queue, workers, reaperPc, nextTick,
                   reminderLog, cancelWritten, faults>>

\* DeleteUser: userRepository.Delete
DeleteUserWrite(r) ==
    /\ up
    /\ Responded
    /\ UNCHANGED <<up, stoppedAt, cal, pollFaults, lastPoll, loop>>
    /\ reqs[r].pc = "du_write"
    /\ users' = users \ {reqs[r].user}
    /\ reqs' = [reqs EXCEPT ![r] =
                   Done(reqs[r], IF reqs[r].user \in users THEN "ok" ELSE "not_found")]
    /\ UNCHANGED <<now, subs, bills, markers, queue, workers, reaperPc, nextTick,
                   reminderLog, cancelWritten, faults>>

----------------------------------------------------------------------------
(* Clock *)

\* keys and unique locks past their TTL are gone
LiveMarkers(t) == [key \in DOMAIN markers |-> IF markers[key] > t THEN markers[key] ELSE 0]

LiveTasks(t) == {x \in queue : x.state # "archived" \/ t < x.enqueuedAt + UniqueTTL}

\* handlers run under asynq.Timeout (45 s, 30 s) and requests under the HTTP
\* server: none of them is in flight across an hour boundary, and the worker
\* pool keeps up with the queue (retry back-off is minutes at most)
Quiescent ==
    /\ \A w \in Workers : workers[w].pc = "idle"
    /\ \A r \in Reqs : reqs[r].pc = "idle"
    /\ \A t \in queue : ~(t.state = "pending" /\ t.processAt <= now)

\* one hour passes; while the process runs, a due poll of the scheduler runs
\* before the hour is over
AdvanceClock ==
    /\ now < MaxTime
    /\ IF up THEN reaperPc = "idle" /\ now < nextTick /\ Quiescent
             ELSE now < stoppedAt + OutageHours
    /\ now' = now + 1
    /\ UNCHANGED <<up, stoppedAt, users, cal, pollFaults, lastPoll, loop>>
    /\ markers' = LiveMarkers(now + 1)
    /\ queue' = LiveTasks(now + 1)
    /\ UNCHANGED <<subs, bills, workers, reqs, reaperPc, nextTick, reminderLog,
                   cancelWritten, faults>>

----------------------------------------------------------------------------
(* Process outage *)

\* StartWithGracefulShutdown: the process stops once (handlers and requests in
\* flight are drained first) while a renewal task waits in the queue, which
\* lives in Redis
ProcessStop ==
    /\ up
    /\ stoppedAt = -1
    /\ reaperPc = "idle"
    /\ \A w \in Workers : workers[w].pc = "idle"
    /\ \A r \in Reqs : reqs[r].pc = "idle"
    /\ \E t \in queue : t.type = "renewal" /\ t.state = "pending"
    /\ up' = FALSE
    /\ stoppedAt' = now
    /\ UNCHANGED <<now, subs, bills, markers, queue, workers, reqs, reaperPc, nextTick,
                   reminderLog, cancelWritten, faults, users, cal, pollFaults, lastPoll, loop>>

\* the process starts again after the outage: the scheduler polls at once
\* (Start), the worker takes up the queue
ProcessStart ==
    /\ ~up
    /\ now = stoppedAt + OutageHours
    /\ up' = TRUE
    /\ nextTick' = now
    /\ UNCHANGED <<now, subs, bills, markers, queue, workers, reqs, reaperPc,
                   reminderLog, cancelWritten, faults, stoppedAt, users, cal, pollFaults, lastPoll, loop>>

----------------------------------------------------------------------------
(* Specification *)

Init ==
    /\ now = 0
    /\ subs = [s \in SubIds |-> NoDoc]
    /\ bills = <<>>
    /\ markers = [key \in SubIds \X ReminderDays |-> 0]
    /\ queue = {}
    /\ workers = [w \in Workers |-> IdleWorker]
    /\ reqs = [r \in Reqs |-> IdleReq]
    /\ reaperPc = "idle"
    /\ nextTick = 0
    /\ reminderLog = <<>>
    /\ cancelWritten = {}
    /\ faults = 0
    /\ up = TRUE
    /\ stoppedAt = -1
    /\ users = Users
    /\ cal = [pc |-> "none"]
    /\ pollFaults = {}
    /\ lastPoll = NoPoll
    /\ loop = [pc |-> "none"]

Next ==
    \/ AdvanceClock
    \/ ReaperTick
    \/ ReminderPass
    \/ RenewalPass
    \/ ExpirationPass
    \/ \E w \in Workers : Deliver(w)
    \/ \E w \in Workers : ReminderFetch(w)
    \/ \E w \in Workers : ReminderSend(w)
    \/ \E w \in Workers : ReminderMark(w)
    \/ \E w \in Workers : RenewalFetch(w)
    \/ \E w \in Workers : RenewCheck(w)
    \/ \E w \in Workers : RenewBill(w)
    \/ \E w \in Workers : RenewUpdate(w)
    \/ \E w \in Workers : RenewConfirm(w)
    \/ \E w \in Workers : ExpirationFetch(w)
    \/ \E w \in Workers : ExpirationRead(w)
    \/ \E w \in Workers : ExpirationWrite(w)
    \/ \E r \in Reqs : CreateBill(r)
    \/ \E r \in Reqs : CreateSub(r)
    \/ \E r \in Reqs : CancelRead(r)
    \/ \E r \in Reqs : CancelRefund(r)
    \/ \E r \in Reqs : CancelWrite(r)
    \/ \E r \in Reqs : DeleteRead(r)
    \/ \E r \in Reqs : DeleteWrite(r)
    \/ \E r \in Reqs : Respond(r)

Spec == Init /\ [][Next]_vars

\* the same system with one process outage and no injected store or mail failure
InitBacklog ==
    /\ now = 0
    /\ subs = [s \in SubIds |-> NoDoc]
    /\ bills = <<>>
    /\ markers = [key \in SubIds \X ReminderDays |-> 0]
    /\ queue = {}
    /\ workers = [w \in Workers |-> IdleWorker]
    /\ reqs = [r \in Reqs |-> IdleReq]
    /\ reaperPc = "idle"
    /\ nextTick = 0
    /\ reminderLog = <<>>
    /\ cancelWritten = {}
    /\ faults = MaxFaults
    /\ up = TRUE
    /\ stoppedAt = -1
    /\ users = Users
    /\ cal = [pc |-> "none"]
    /\ pollFaults = {}
    /\ lastPoll = NoPoll
    /\ loop = [pc |-> "none"]

NextBacklog ==
    \/ Next
    \/ ProcessStop
    \/ ProcessStart

SpecBacklog == InitBacklog /\ [][NextBacklog]_vars

\* the same system with the user routes: users delete their profiles (no
\* injected store or mail failure)
NextUsers ==
    \/ Next
    \/ \E r \in Reqs : DeleteUserFind(r)
    \/ \E r \in Reqs : DeleteUserCheck(r)
    \/ \E r \in Reqs : DeleteUserWrite(r)

SpecUsers == InitBacklog /\ [][NextUsers]_vars

\* the scheduler goroutine, the worker goroutines and the clock: every step
\* that does not start a request
SystemStep ==
    \/ AdvanceClock
    \/ ReaperTick
    \/ ReminderPass
    \/ RenewalPass
    \/ ExpirationPass
    \/ \E w \in Workers :
          \/ Deliver(w)
          \/ ReminderFetch(w) \/ ReminderSend(w) \/ ReminderMark(w)
          \/ RenewalFetch(w) \/ RenewCheck(w) \/ RenewBill(w) \/ RenewUpdate(w)
          \/ RenewConfirm(w)
          \/ ExpirationFetch(w) \/ ExpirationRead(w) \/ ExpirationWrite(w)

\* request r, once it has entered the service, runs to its response
RequestFinish(r) ==
    \/ CreateSub(r) \/ CancelRefund(r) \/ CancelWrite(r) \/ DeleteWrite(r)
    \/ Respond(r)

\* fair scheduling with stores, mail and Redis that do not fail: time passes,
\* the ticker fires, the worker pool takes the tasks that are due and every
\* handler and request in flight runs on; clients are free to send requests or not
SpecLive ==
    InitBacklog /\ [][Next]_vars /\ SF_vars(SystemStep)
         /\ \A r \in Reqs : SF_vars(RequestFinish(r))

----------------------------------------------------------------------------
(* Reminders *)

\* C1: for every subscription s and offset k, no two reminder emails are
\* dispatched less than 24 hours apart, in any execution (scheduler ticks,
\* retries, marker-write failures included)
C1_AtMostOneReminderPerWindow ==
    \A i, j \in DOMAIN reminderLog :
        (/\ i < j
         /\ reminderLog[i].sub = reminderLog[j].sub
         /\ reminderLog[i].k = reminderLog[j].k)
            => reminderLog[j].at - reminderLog[i].at >= MarkerTTL

----------------------------------------------------------------------------
(* Renewals *)

\* paid bills of s whose period starts at or after instant t
PaidBillsFrom(b, s, t) ==
    {i \in DOMAIN b : b[i].sub = s /\ b[i].status = "paid" /\ b[i].startDate >= t}

\* worker w ends a delivery of a renewal task that had been delivered before, and
\* the task leaves the queue for good (completed or archived)
RedeliveredRenewalEnds(w) ==
    LET t == workers[w].task IN
    /\ workers[w].pc # "idle"
    /\ t.type = "renewal"
    /\ t.retried >= 1
    /\ workers'[w].pc = "idle"
    /\ \A x \in queue' :
          ~(x.type = "renewal" /\ x.sub = t.sub /\ x.validTill = t.validTill
            /\ x.state = "pending")

\* C2: when the renewal task of a subscription has been delivered more than once
\* and is over, its deliveries together have created exactly one new paid bill
\* and moved valid_till forward by exactly one period (subscription still active)
C2_RedeliveredRenewalRenewsOnce ==
    [][\A w \in Workers :
          (RedeliveredRenewalEnds(w) /\ subs'[workers[w].task.sub].status = "active")
              => LET t == workers[w].task
                     s == t.sub
                 IN /\ Cardinality(PaidBillsFrom(bills', s, t.validTill)) = 1
                    /\ subs'[s].validTill =
                           CalcRenewalDate(t.validTill, subs'[s].frequency)]_vars

----------------------------------------------------------------------------
(* Status machine *)

\* C3: once the stored status of a subscription is expired, no step of any actor
\* changes it while the document exists
C3_ExpiredIsStable ==
    [][\A s \in SubIds :
          (subs[s].status = "expired" /\ subs'[s].status # "none")
              => subs'[s].status = "expired"]_vars

\* C4: when a cancel and a renewal of the same active subscription race, the
\* renewal never puts the status back to active once the cancel has been
\* written: from then on the subscription is not active
C4_RenewalNeverUndoesCancel ==
    \A s \in SubIds : s \in cancelWritten => subs[s].status # "active"

----------------------------------------------------------------------------
(* Bill ledger *)

\* C5: the paid bills of a subscription have pairwise different start dates and
\* leave no gap: a paid bill and the next paid bill in start-date order meet
\* (the later one starts where the earlier one ends)
C5_PaidBillsFormAChain ==
    \A s \in SubIds :
        \A i, j \in PaidBills(s) :
            i # j =>
               /\ bills[i].startDate # bills[j].startDate
               /\ (/\ bills[i].startDate < bills[j].startDate
                   /\ \A k \in PaidBills(s) :
                         ~(/\ bills[i].startDate < bills[k].startDate
                           /\ bills[k].startDate < bills[j].startDate))
                      => bills[j].startDate = bills[i].endDate

\* a renewal has extended the ledger: two paid bills of one subscription
C5_Witness ==
    \E s \in SubIds : Cardinality(PaidBills(s)) >= 2

\* C6: an active subscription always has a paid bill whose end_date is its
\* valid_till, also between the two writes of a create or of a renewal
C6_ActiveHasCoveringBill ==
    \A s \in SubIds :
        subs[s].status = "active"
            => \E i \in PaidBills(s) : bills[i].endDate = subs[s].validTill

\* C7: once the cancel of a subscription has been written, no bill is created
\* for that subscription any more
C7_NoBillAfterCancel ==
    [][\A i \in DOMAIN bills' :
          i \notin DOMAIN bills => bills'[i].sub \notin cancelWritten]_vars

\* C8: a subscription enters status expired only from status cancelled with
\* valid_till <= now; never from active, and never at creation
C8_ExpiredOnlyFromCancelledPastValidity ==
    [][\A s \in SubIds :
          (subs[s].status # "expired" /\ subs'[s].status = "expired")
              => /\ subs[s].status = "cancelled"
                 /\ subs[s].validTill <= now]_vars

----------------------------------------------------------------------------
(* Cancel *)

\* index of the paid bill of s with the latest start date, 0 if s has none
LatestPaid(b, s, except) ==
    LET P == {i \in DOMAIN b : b[i].sub = s /\ b[i].status = "paid" /\ i \notin except}
    IN IF P = {} THEN 0
       ELSE CHOOSE i \in P : \A j \in P : b[j].startDate <= b[i].startDate

\* request r takes the bill-keeping step of a cancel
CancelBillStep(r) == reqs[r].pc = "can_refund" /\ reqs'[r].pc # "can_refund"

\* request r takes the final write of a cancel and succeeds
CancelWriteStep(r) == reqs[r].pc = "can_write" /\ reqs'[r].result = "ok"

CancelOfInactive(r) ==
    /\ reqs[r].pc = "idle"
    /\ reqs'[r].pc # "idle"
    /\ reqs'[r].op = "cancel"
    /\ Exists(reqs'[r].sub)
    /\ subs[reqs'[r].sub].status # "active"

\* C10: a cancel of a subscription that is not active (already cancelled, or
\* expired) fails at once, with conflict when the owner asks (the ownership
\* check comes first: forbidden for anyone else), and leaves the subscription
\* and all bills unchanged
C10_CancelOfInactiveIsConflict ==
    [][\A r \in Reqs :
          CancelOfInactive(r) =>
             /\ reqs'[r].pc = "done"
             /\ reqs'[r].result =
                    IF subs[reqs'[r].sub].userId = reqs'[r].user
                    THEN "conflict" ELSE "forbidden"
             /\ subs' = subs
             /\ bills' = bills]_vars

\* the owner's cancel of a cancelled or expired subscription has ended in conflict
C10_Witness ==
    \E r \in Reqs :
        /\ reqs[r].pc = "done"
        /\ reqs[r].op = "cancel"
        /\ reqs[r].result = "conflict"
        /\ subs[reqs[r].sub].status \in {"cancelled", "expired"}
        /\ subs[reqs[r].sub].userId = reqs[r].user

----------------------------------------------------------------------------
(* Renew, refused *)

\* worker w leaves the precondition check of RenewSubscriptionInternal for a
\* stored subscription that is not active or whose latest paid bill has not started
RenewOfUnrenewable(w) ==
    LET s == workers[w].task.sub
        last == LatestPaid(bills, s, {})
    IN /\ workers[w].pc = "ren_check"
       /\ workers'[w].pc # "ren_check"
       /\ Exists(s)
       /\ \/ subs[s].status # "active"
          \/ (last # 0 /\ bills[last].startDate > now)

----------------------------------------------------------------------------
(* Delete *)

\* request r enters DeleteSubscription and is let through to the repository
DeleteAdmitted(r) == reqs[r].pc = "idle" /\ reqs'[r].pc = "del_write"

\* C12: a delete is let through only when the stored status of the subscription
\* is cancelled (an active or an expired subscription is refused and stays
\* stored), and no document is removed but by a delete that was let through
C12_DeleteOnlyWhenCancelled ==
    [][/\ \A r \in Reqs :
             DeleteAdmitted(r) =>
                /\ subs[reqs'[r].sub].userId = reqs'[r].user
                /\ subs[reqs'[r].sub].status = "cancelled"
       /\ \A s \in SubIds :
             (Exists(s) /\ subs'[s].status = "none")
                 => \E r \in Reqs : reqs[r].pc = "del_write" /\ reqs[r].sub = s]_vars

----------------------------------------------------------------------------
(* Create *)

CreateSucceeds(r) == reqs[r].pc = "cr_sub" /\ reqs'[r].result = "ok"

----------------------------------------------------------------------------
(* Expiration, progress *)

\* C15: under fair scheduling, a cancelled subscription whose valid_till has
\* passed (at an instant from which a scheduler poll is still to come before
\* the horizon of the model) gets status expired, unless it is deleted first
C15_CancelledEventuallyExpires ==
    \A s \in SubIds :
        (/\ subs[s].status = "cancelled"
         /\ subs[s].validTill < now
         /\ now + SchedulerInterval <= MaxTime)
            ~> subs[s].status \in {"expired", "none"}

\* the expiration task of a cancelled subscription has run: the subscription is
\* expired and its valid_till lies in the past
C15_Witness ==
    \E s \in SubIds :
        /\ subs[s].status = "expired"
        /\ subs[s].validTill < now
        /\ s \in cancelWritten

----------------------------------------------------------------------------
(* Renewal, coverage of the polls *)

\* C16: with the 12h poll interval and the 8h lead window, a subscription that
\* is active is renewed before its billing period ends: the valid_till of an
\* active subscription never lies in the past
C16_ActiveIsRenewedInTime ==
    \A s \in SubIds : subs[s].status = "active" => subs[s].validTill >= now

----------------------------------------------------------------------------
(* Scheduler, frame *)

\* C17: a step of the scheduler poll (the tick and its reminder, renewal and
\* expiration passes) changes no subscription and no bill; it writes no marker
\* and its only effect is to add tasks to the queue
C17_PollChangesNoStore ==
    [][reaperPc' # reaperPc =>
          /\ subs' = subs
          /\ bills' = bills
          /\ markers' = markers
          /\ queue \subseteq queue']_vars

\* a poll has enqueued the expiration task of a cancelled subscription past its
\* valid_till and has ended: the subscription is still stored as cancelled
C17_Witness ==
    /\ reaperPc = "idle"
    /\ \E t \in queue :
          /\ t.type = "expiration"
          /\ t.state = "pending"
          /\ t.enqueuedAt = now
          /\ subs[t.sub].status = "cancelled"
          /\ subs[t.sub].validTill < now

----------------------------------------------------------------------------
(* Cancel, validity *)

\* C18: whenever a cancel succeeds, the valid_till it stores with status
\* cancelled lies strictly in the future at that instant
C18_CancelledWhileStillValid ==
    [][\A r \in Reqs :
          CancelWriteStep(r) =>
             /\ subs'[reqs[r].sub].status = "cancelled"
             /\ subs'[reqs[r].sub].validTill > now]_vars

\* C19: once a subscription is stored as cancelled, no later step of any actor
\* (renewal handler, mark-expired, scheduler, requests) changes its valid_till
\* while the document exists: the value written by the cancel is the one the
\* expired subscription carries
C19_ValidTillFrozenAfterCancel ==
    [][\A s \in SubIds :
          (subs[s].status \in {"cancelled", "expired"} /\ subs'[s].status # "none")
              => subs'[s].validTill = subs[s].validTill]_vars

----------------------------------------------------------------------------
(* Users *)

\* C20: in every reachable state, a subscription create running concurrently
\* with a user delete included, the user_id of every stored subscription is the
\* id of a stored user
C20_SubscriptionOwnerExists ==
    \A s \in SubIds : Exists(s) => subs[s].userId \in users

----------------------------------------------------------------------------
(* Request path: the read routes of SubscriptionServiceExternal *)

\* the documents a response carries, each with its id
Returned(store, ids) == {[id |-> s, doc |-> store[s]] : s \in ids}

\* GetSubscriptionByID on a store: GetByID, then the ownership check
ReadByID(store, u, s) ==
    IF store[s].status = "none" THEN [result |-> "not_found", data |-> {}]
    ELSE IF store[s].userId # u THEN [result |-> "forbidden", data |-> {}]
    ELSE [result |-> "ok", data |-> Returned(store, {s})]

\* GetSubscriptionsByUserID on a store: the claimed id must be the requested
\* id, then GetByUserID
ReadByUser(store, id, claimed) ==
    IF claimed # id THEN [result |-> "forbidden", data |-> {}]
    ELSE [result |-> "ok",
          data |-> Returned(store, {s \in DOMAIN store :
                                       /\ store[s].status # "none"
                                       /\ store[s].userId = id})]

\* GetAllSubscriptions on a store: subscriptionRepository.GetAll, every
\* document of the collection
ReadAll(store) ==
    [result |-> "ok",
     data |-> Returned(store, {s \in DOMAIN store : store[s].status # "none"})]

\* the outcome of a read handed to the controller
ReadDone(req, out) == [Done(req, out.result) EXCEPT !.data = out.data]

\* GET /{id}
GetSubscriptionByID(r) ==
    /\ up
    /\ Responded
    /\ UNCHANGED <<up, stoppedAt, users, cal, pollFaults, lastPoll, loop>>
    /\ reqs[r].pc = "idle"
    /\ r = CHOOSE x \in Reqs : reqs[x].pc = "idle"
    /\ \E u \in Users, s \in SubIds :
          reqs' = [reqs EXCEPT ![r] =
                      ReadDone([IdleReq EXCEPT !.op = "get", !.sub = s, !.user = u],
                               ReadByID(subs, u, s))]
    /\ UNCHANGED <<now, subs, bills, markers, queue, workers, reaperPc, nextTick,
                   reminderLog, cancelWritten, faults>>

\* GET /user/{id}
GetSubscriptionsByUserID(r) ==
    /\ up
    /\ Responded
    /\ UNCHANGED <<up, stoppedAt, users, cal, pollFaults, lastPoll, loop>>
    /\ reqs[r].pc = "idle"
    /\ r = CHOOSE x \in Reqs : reqs[x].pc = "idle"
    /\ \E id \in Users, claimed \in Users :
          reqs' = [reqs EXCEPT ![r] =
                      ReadDone([IdleReq EXCEPT !.op = "get_user", !.user = claimed],
                               ReadByUser(subs, id, claimed))]
    /\ UNCHANGED <<now, subs, bills, markers, queue, workers, reaperPc, nextTick,
                   reminderLog, cancelWritten, faults>>

\* GET /
GetAllSubscriptions(r) ==
    /\ up
    /\ Responded
    /\ UNCHANGED <<up, stoppedAt, users, cal, pollFaults, lastPoll, loop>>
    /\ reqs[r].pc = "idle"
    /\ r = CHOOSE x \in Reqs : reqs[x].pc = "idle"
    /\ \E u \in Users :
          reqs' = [reqs EXCEPT ![r] =
                      ReadDone([IdleReq EXCEPT !.op = "get_all", !.user = u],
                               ReadAll(subs))]
    /\ UNCHANGED <<now, subs, bills, markers, queue, workers, reaperPc, nextTick,
                   reminderLog, cancelWritten, faults>>

\* valid_till values of the stored documents the request path starts from
StoredValidTills == {12, 30}

\* the documents a collection can hold
StoredDocs ==
    [status : {"active", "cancelled", "expired"}, validTill : StoredValidTills,
     userId : Users, frequency : Frequencies]

\* the paid bill of the running period of a stored document
StoredBill(s, doc) ==
    [sub |-> s, startDate |-> doc.validTill - DayHours, endDate |-> doc.validTill,
     status |-> "paid"]

\* a running service: the collection holds any document, with its bill
InitReads ==
    /\ now = 0
    /\ subs \in [SubIds -> StoredDocs \cup {NoDoc}]
    /\ bills = IF Exists("s1") THEN <<StoredBill("s1", subs["s1"])>> ELSE <<>>
    /\ markers = [key \in SubIds \X ReminderDays |-> 0]
    /\ queue = {}
    /\ workers = [w \in Workers |-> IdleWorker]
    /\ reqs = [r \in Reqs |-> IdleReq]
    /\ reaperPc = "idle"
    /\ nextTick = 0
    /\ reminderLog = <<>>
    /\ cancelWritten = {}
    /\ faults = MaxFaults
    /\ up = TRUE
    /\ stoppedAt = -1
    /\ users = Users
    /\ cal = [pc |-> "none"]
    /\ pollFaults = {}
    /\ lastPoll = NoPoll
    /\ loop = [pc |-> "none"]

\* the routes of the subscription controller
NextReads ==
    \/ \E r \in Reqs : GetSubscriptionByID(r)
    \/ \E r \in Reqs : GetSubscriptionsByUserID(r)
    \/ \E r \in Reqs : GetAllSubscriptions(r)
    \/ \E r \in Reqs : CreateBill(r)
    \/ \E r \in Reqs : CreateSub(r)
    \/ \E r \in Reqs : CancelRead(r)
    \/ \E r \in Reqs : CancelRefund(r)
    \/ \E r \in Reqs : CancelWrite(r)
    \/ \E r \in Reqs : DeleteRead(r)
    \/ \E r \in Reqs : DeleteWrite(r)
    \/ \E r \in Reqs : Respond(r)

SpecReads == InitReads /\ [][NextReads]_vars

\* the stores that differ from the present one only in the subscriptions of
\* users other than u
SameFor(u) ==
    {alt \in [SubIds -> StoredDocs \cup {NoDoc}] :
        \A s \in SubIds :
            ((Exists(s) /\ subs[s].userId = u)
                \/ (alt[s].status # "none" /\ alt[s].userId = u))
            => alt[s] = subs[s]}

\* what request r was answered
Answer(r) == [result |-> reqs[r].result, data |-> reqs[r].data]

\* C21: an operation on a subscription by a principal who is not its owner is
\* answered forbidden, a response carries no document of another user, and the
\* answer to a read is the same in every store that differs only in other
\* users' subscriptions
C21_NonOwnerLearnsNothing ==
    \A r \in Reqs :
        reqs[r].pc = "done" =>
            /\ \A d \in reqs[r].data : d.doc.userId = reqs[r].user
            /\ (/\ reqs[r].op \in {"get", "cancel", "delete"}
                /\ Exists(reqs[r].sub)
                /\ subs[reqs[r].sub].userId # reqs[r].user)
                   => reqs[r].result = "forbidden"
            /\ reqs[r].op = "get_all" =>
                  \A alt \in SameFor(reqs[r].user) : ReadAll(alt) = Answer(r)
            /\ reqs[r].op = "get" =>
                  \A alt \in SameFor(reqs[r].user) :
                      ReadByID(alt, reqs[r].user, reqs[r].sub).data = reqs[r].data

----------------------------------------------------------------------------
(* lib.CalcRenewalDate on calendar dates *)

\* the years the start dates are drawn from (LastYear + 1 is reached by the
\* advance)
FirstYear == 2023
LastYear == 2024

\* the times of day the start dates are drawn from, in hours
DayTimes == {0, 13}

CalFrequencies == {"daily", "weekly", "monthly", "yearly", "unknown"}

IsLeap(y) == (y % 4 = 0 /\ y % 100 # 0) \/ y % 400 = 0

\* number of days of month m (1..12) of year y
DaysIn(y, m) ==
    IF m = 2 THEN (IF IsLeap(y) THEN 29 ELSE 28)
    ELSE IF m \in {4, 6, 9, 11} THEN 30
    ELSE 31

\* time.Date, the day part: a day outside the month rolls into the months
\* before or after (m is in 1..12)
RECURSIVE NormDay(_, _, _, _)
NormDay(y, m, d, h) ==
    IF d < 1
    THEN LET py == IF m = 1 THEN y - 1 ELSE y
             pm == IF m = 1 THEN 12 ELSE m - 1
         IN NormDay(py, pm, d + DaysIn(py, pm), h)
    ELSE IF d > DaysIn(y, m)
    THEN LET ny == IF m = 12 THEN y + 1 ELSE y
             nm == IF m = 12 THEN 1 ELSE m + 1
         IN NormDay(ny, nm, d - DaysIn(y, m), h)
    ELSE [year |-> y, month |-> m, day |-> d, hour |-> h]

\* time.Date: a month outside 1..12 rolls into the years, then the day is
\* normalised
GoDate(y, m, d, h) ==
    NormDay(y + ((m - 1) \div 12), ((m - 1) % 12) + 1, d, h)

\* Time.AddDate: time.Date of the fields plus the offsets
AddDate(t, years, months, days) ==
    GoDate(t.year + years, t.month + months, t.day + days, t.hour)

Min(a, b) == IF a < b THEN a ELSE b

\* CalcRenewalDate with the monthly case written as AddDate(0, 1, 0)
CalcRenewalDateCivil_AddMonth(start, frequency) ==
    CASE frequency = "daily" -> AddDate(start, 0, 0, 1)
      [] frequency = "weekly" -> AddDate(start, 0, 0, 7)
      [] frequency = "monthly" -> AddDate(start, 0, 1, 0)
      [] frequency = "yearly" -> AddDate(start, 1, 0, 0)
      [] OTHER -> start

\* lib.CalcRenewalDate
CalcRenewalDateCivil(start, frequency) ==
    CASE frequency = "daily" -> AddDate(start, 0, 0, 1)
      [] frequency = "weekly" -> AddDate(start, 0, 0, 7)
      [] frequency = "monthly" ->
            LET originalDay == start.day
                first == GoDate(start.year, start.month + 1, 1, start.hour)
                nextMonth == IF start.month = 12
                             THEN GoDate(start.year + 1, 1, 1, start.hour)
                             ELSE first
                lastDayOfNextMonth ==
                    GoDate(nextMonth.year, nextMonth.month + 1, 0, 0).day
                renewalDay == Min(originalDay, lastDayOfNextMonth)
            IN GoDate(nextMonth.year, nextMonth.month, renewalDay, start.hour)
      [] frequency = "yearly" -> AddDate(start, 1, 0, 0)
      [] OTHER -> start

\* the calendar dates of the years FirstYear..LastYear
StartDates ==
    {t \in [year : FirstYear..LastYear, month : 1..12, day : 1..31,
            hour : DayTimes] : t.day <= DaysIn(t.year, t.month)}

\* a start date and a frequency are handed to CalcRenewalDate
InitDates ==
    /\ now = 0
    /\ subs = [s \in SubIds |-> NoDoc]
    /\ bills = <<>>
    /\ markers = [key \in SubIds \X ReminderDays |-> 0]
    /\ queue = {}
    /\ workers = [w \in Workers |-> IdleWorker]
    /\ reqs = [r \in Reqs |-> IdleReq]
    /\ reaperPc = "idle"
    /\ nextTick = 0
    /\ reminderLog = <<>>
    /\ cancelWritten = {}
    /\ faults = MaxFaults
    /\ up = TRUE
    /\ stoppedAt = -1
    /\ users = Users
    /\ \E t \in StartDates, f \in CalFrequencies :
          cal = [pc |-> "start", start |-> t, frequency |-> f, result |-> t]
    /\ pollFaults = {}
    /\ lastPoll = NoPoll
    /\ loop = [pc |-> "none"]

\* CalcRenewalDate returns
Advance ==
    /\ cal.pc = "start"
    /\ cal' = [cal EXCEPT !.pc = "done",
                          !.result = CalcRenewalDateCivil(cal.start, cal.frequency)]
    /\ UNCHANGED <<now, subs, bills, markers, queue, workers, reqs, reaperPc,
                   nextTick, reminderLog, cancelWritten, faults, up, stoppedAt,
                   users, pollFaults, lastPoll, loop>>

\* Time.Before on calendar dates
DateBefore(a, b) ==
    \/ a.year < b.year
    \/ (a.year = b.year /\ a.month < b.month)
    \/ (a.year = b.year /\ a.month = b.month /\ a.day < b.day)
    \/ (a.year = b.year /\ a.month = b.month /\ a.day = b.day /\ a.hour < b.hour)

\* Subscription.Validate without the frequency rule
ValidFrequency_Any(f) == TRUE

\* Subscription.Validate, the frequency rule
ValidFrequency(f) == f \in {"daily", "weekly", "monthly", "yearly"}

\* Bill.Validate, the date rule: end_date not before start_date
BillValidate(startDate, endDate) == ~DateBefore(endDate, startDate)

\* the bill of the period [start, CalcRenewalDate(start, frequency)) of a
\* validated subscription is validated and stored
PersistBill ==
    /\ cal.pc = "done"
    /\ ValidFrequency(cal.frequency)
    /\ BillValidate(cal.start, cal.result)
    /\ cal' = [cal EXCEPT !.pc = "billed"]
    /\ UNCHANGED <<now, subs, bills, markers, queue, workers, reqs, reaperPc,
                   nextTick, reminderLog, cancelWritten, faults, up, stoppedAt,
                   users, pollFaults, lastPoll, loop>>

NextDates ==
    \/ Advance
    \/ PersistBill

SpecDates == InitDates /\ [][NextDates]_vars

\* the calendar month after month m of year y
MonthAfter(y, m) ==
    IF m = 12 THEN [year |-> y + 1, month |-> 1] ELSE [year |-> y, month |-> m + 1]

\* start date t was advanced to date d
Advanced(t, f, d) ==
    /\ cal.pc = "done"
    /\ cal.frequency = f
    /\ cal.start.year = t[1] /\ cal.start.month = t[2] /\ cal.start.day = t[3]
    => (cal.result.year = d[1] /\ cal.result.month = d[2] /\ cal.result.day = d[3])

\* C22: the monthly advance lands in the next calendar month on the same day
\* of the month, or on that month's last day when it has no such day, at the
\* same time of day (Jan 31 -> Feb 28 or Feb 29, Mar 31 -> Apr 30,
\* Apr 30 -> May 30, Dec d -> Jan d of the next year)
C22_MonthlyAdvanceClamps ==
    (cal.pc = "done" /\ cal.frequency = "monthly") =>
        LET t == cal.start
            next == MonthAfter(t.year, t.month)
        IN /\ cal.result.year = next.year
           /\ cal.result.month = next.month
           /\ cal.result.day =
                 (IF t.day <= DaysIn(next.year, next.month) THEN t.day
                  ELSE DaysIn(next.year, next.month))
           /\ cal.result.hour = t.hour
           /\ Advanced(<<2023, 1, 31>>, "monthly", <<2023, 2, 28>>)
           /\ Advanced(<<2024, 1, 31>>, "monthly", <<2024, 2, 29>>)
           /\ Advanced(<<2024, 3, 31>>, "monthly", <<2024, 4, 30>>)
           /\ Advanced(<<2024, 4, 30>>, "monthly", <<2024, 5, 30>>)
           /\ Advanced(<<2024, 12, 25>>, "monthly", <<2025, 1, 25>>)

\* a monthly advance from the 31st into a month of 30 days or fewer has been
\* computed
C22_Witness ==
    /\ cal.pc = "done"
    /\ cal.frequency = "monthly"
    /\ cal.start.day = 31
    /\ cal.result.day < 31

\* C23: the yearly advance lands on the same month and day of the next year,
\* and from Feb 29 on Feb 28 of the next year, never in March
C23_YearlyAdvanceClamps ==
    (cal.pc = "done" /\ cal.frequency = "yearly") =>
        LET t == cal.start IN
        /\ cal.result.year = t.year + 1
        /\ cal.result.month = t.month
        /\ cal.result.day = Min(t.day, DaysIn(t.year + 1, t.month))
        /\ cal.result.hour = t.hour

----------------------------------------------------------------------------
(* The scheduler and the worker over a stored collection, with failing store *)
(* and Redis calls in the scheduler                                          *)

\* the ids of the stored collection, in insertion order
StoreOrder == <<"s1", "s2">>
StoreIds == {StoreOrder[i] : i \in DOMAIN StoreOrder}

\* valid_till of the stored documents, in hours from the start of the process:
\* past, inside the renewal window (start, end), one day and three days ahead
PolledValidTills == {-4, 1, 8, 30, 80}

PolledDocs ==
    [status : {"active", "cancelled"}, validTill : PolledValidTills,
     userId : Owners, frequency : Frequencies]

\* the bills collection of a stored collection: the current period of each
StoredBills(store) ==
    LET present == SelectSeq(StoreOrder, LAMBDA s : store[s].status # "none")
    IN [i \in 1..Len(present) |-> StoredBill(present[i], store[present[i]])]

\* the process starts over a stored collection (the second subscription is
\* active or absent); the reminders of the first subscription may have been
\* sent within the last day
InitReaper ==
    /\ now = 0
    /\ subs \in {store \in [StoreIds -> PolledDocs \cup {NoDoc}] :
                    store[StoreOrder[2]].status \in {"active", "none"}}
    /\ bills = StoredBills(subs)
    /\ \E marked \in SUBSET {StoreOrder[1]} :
          markers = [key \in StoreIds \X ReminderDays |->
                        IF key[1] \in marked THEN MarkerTTL ELSE 0]
    /\ queue = {}
    /\ workers = [w \in Workers |-> IdleWorker]
    /\ reqs = [r \in Reqs |-> IdleReq]
    /\ reaperPc = "idle"
    /\ nextTick = 0
    /\ reminderLog = <<>>
    /\ cancelWritten = {}
    /\ faults = 0
    /\ up = TRUE
    /\ stoppedAt = -1
    /\ users = Users
    /\ cal = [pc |-> "none"]
    /\ pollFaults = {}
    /\ lastPoll = [NoPoll EXCEPT !.on = TRUE]
    /\ loop = [pc |-> "none"]

\* a failed call of the scheduler: the query of a pass (sub "none") or the
\* Redis call (Exists, Enqueue) for one subscription
PollFault(pass, s) == [pass |-> pass, sub |-> s, at |-> now]

\* the stored subscriptions the loop of a pass reaches before subscription f
Before(f) ==
    {StoreOrder[i] : i \in {j \in DOMAIN StoreOrder :
                               \E l \in DOMAIN StoreOrder : j < l /\ StoreOrder[l] = f}}

\* handleReminderTasks whose loop ends at the first failing call
ReminderPassFailing_StopsAtFailure ==
    /\ up
    /\ Responded
    /\ UNCHANGED <<up, stoppedAt, users, cal, lastPoll, loop>>
    /\ reaperPc = "reminders"
    /\ faults < MaxFaults
    /\ faults' = faults + 1
    /\ \/ /\ queue' = queue
          /\ pollFaults' = pollFaults \cup {PollFault("reminders", "none")}
       \/ \E f \in DueForReminder(now) :
             LET due == {s \in DueForReminder(now) \cap Before(f) :
                            ~MarkerExists(s, DaysBetween(now, subs[s].validTill))}
             IN /\ queue' = queue \cup
                       {ReminderTaskFor(s) : s \in
                           {x \in due : Enqueue(queue, ReminderTaskFor(x)) # queue}}
                /\ pollFaults' = pollFaults \cup {PollFault("reminders", f)}
    /\ reaperPc' = "renewals"
    /\ UNCHANGED <<now, subs, bills, markers, workers, reqs, nextTick, reminderLog,
                   cancelWritten>>

\* handleReminderTasks with a failing call that ends the tick
ReminderPassFailing_EndsTick ==
    /\ up
    /\ Responded
    /\ UNCHANGED <<up, stoppedAt, users, cal, lastPoll, loop>>
    /\ reaperPc = "reminders"
    /\ faults < MaxFaults
    /\ faults' = faults + 1
    /\ queue' = queue
    /\ pollFaults' = pollFaults \cup {PollFault("reminders", "none")}
    /\ reaperPc' = "idle"
    /\ UNCHANGED <<now, subs, bills, markers, workers, reqs, nextTick, reminderLog,
                   cancelWritten>>

\* handleReminderTasks with a failing call: the query fails and the pass
\* returns the error, or the Exists or Enqueue call for one due subscription
\* fails, which is logged, and the loop goes on
ReminderPassFailing ==
    /\ up
    /\ Responded
    /\ UNCHANGED <<up, stoppedAt, users, cal, lastPoll, loop>>
    /\ reaperPc = "reminders"
    /\ faults < MaxFaults
    /\ faults' = faults + 1
    /\ \/ /\ queue' = queue
          /\ pollFaults' = pollFaults \cup {PollFault("reminders", "none")}
       \/ \E f \in DueForReminder(now) :
             LET due == {s \in DueForReminder(now) \ {f} :
                            ~MarkerExists(s, DaysBetween(now, subs[s].validTill))}
             IN /\ queue' = queue \cup
                       {ReminderTaskFor(s) : s \in
                           {x \in due : Enqueue(queue, ReminderTaskFor(x)) # queue}}
                /\ pollFaults' = pollFaults \cup {PollFault("reminders", f)}
    /\ reaperPc' = "renewals"
    /\ UNCHANGED <<now, subs, bills, markers, workers, reqs, nextTick, reminderLog,
                   cancelWritten>>

\* handleRenewalTasks with a failing call
RenewalPassFailing ==
    /\ up
    /\ Responded
    /\ UNCHANGED <<up, stoppedAt, users, cal, lastPoll, loop>>
    /\ reaperPc = "renewals"
    /\ faults < MaxFaults
    /\ faults' = faults + 1
    /\ LET all == DueForRenewal(now + RenewalWindowStartHours,
                                now + RenewalHoursBeforeDay)
       IN \/ /\ queue' = queue
             /\ pollFaults' = pollFaults \cup {PollFault("renewals", "none")}
          \/ \E f \in all :
                /\ queue' = queue \cup
                       {RenewalTaskFor(s) : s \in
                           {x \in all \ {f} : Enqueue(queue, RenewalTaskFor(x)) # queue}}
                /\ pollFaults' = pollFaults \cup {PollFault("renewals", f)}
    /\ reaperPc' = "expirations"
    /\ UNCHANGED <<now, subs, bills, markers, workers, reqs, nextTick, reminderLog,
                   cancelWritten>>

\* handleExpirationTasks with a failing call
ExpirationPassFailing ==
    /\ up
    /\ Responded
    /\ UNCHANGED <<up, stoppedAt, users, cal, lastPoll, loop>>
    /\ reaperPc = "expirations"
    /\ faults < MaxFaults
    /\ faults' = faults + 1
    /\ LET all == CancelledExpired(now)
       IN \/ /\ queue' = queue
             /\ pollFaults' = pollFaults \cup {PollFault("expirations", "none")}
          \/ \E f \in all :
                /\ queue' = queue \cup
                       {ExpirationTaskFor(s) : s \in
                           {x \in all \ {f} : Enqueue(queue, ExpirationTaskFor(x)) # queue}}
                /\ pollFaults' = pollFaults \cup {PollFault("expirations", f)}
    /\ reaperPc' = "idle"
    /\ UNCHANGED <<now, subs, bills, markers, workers, reqs, nextTick, reminderLog,
                   cancelWritten>>

\* the scheduler goroutine, the worker goroutines and the clock; the calls of
\* the scheduler can fail
NextReaper ==
    \/ SystemStep
    \/ ReminderPassFailing
    \/ RenewalPassFailing
    \/ ExpirationPassFailing

SpecReaper == InitReaper /\ [][NextReaper]_vars

\* the positions of pollSubscriptions, in the order of a tick
PollOrder ==
    {<<"idle", "reminders">>, <<"reminders", "renewals">>,
     <<"renewals", "expirations">>, <<"expirations", "idle">>}

\* C25: a tick runs the reminder pass, the renewal pass and the expiration
\* pass in that order, also when the query of a pass fails: the renewal pass
\* and the expiration pass that run after a failure still schedule what is
\* due; and no hour passes before the tick of the startup has run
C25_TickRunsThreePassesInOrder ==
    [][/\ reaperPc' # reaperPc => <<reaperPc, reaperPc'>> \in PollOrder
       /\ (reaperPc = "renewals" /\ reaperPc' # reaperPc /\ faults' = faults) =>
             \A s \in DueForRenewal(now + RenewalWindowStartHours,
                                    now + RenewalHoursBeforeDay) :
                 UniqueLocked(queue', "renewal", s, 0, subs[s].validTill)
       /\ (reaperPc = "expirations" /\ reaperPc' # reaperPc /\ faults' = faults) =>
             \A s \in CancelledExpired(now) :
                 UniqueLocked(queue', "expiration", s, 0, subs[s].validTill)
       /\ now' # now => nextTick > now]_vars

\* the query of the reminder pass failed in this tick, and the renewal pass and
\* the expiration pass of the same tick have scheduled their tasks
C25_Witness ==
    /\ reaperPc = "idle"
    /\ nextTick = now + SchedulerInterval
    /\ \E e \in pollFaults : e.pass = "reminders" /\ e.sub = "none" /\ e.at = now
    /\ \E t \in queue : t.type = "renewal" /\ t.enqueuedAt = now
    /\ \E t \in queue : t.type = "expiration" /\ t.enqueuedAt = now

\* the reminder tasks of subscription s among the tasks a step adds
AddedFor(s) == {t \in queue' \ queue : t.sub = s}

\* the subscriptions for which a call of the scheduler fails in a step
FailedIn == {e.sub : e \in pollFaults' \ pollFaults}

\* C26: the reminder pass enqueues nothing for a due subscription whose marker
\* reminder_sent:{id}:{k} exists, and exactly one reminder task with payload
\* (id, k, valid_till) for every other due subscription; the failed enqueue of
\* one subscription leaves the tasks of the others enqueued
C26_ReminderPassPerSubscription ==
    [][(reaperPc = "reminders" /\ reaperPc' # reaperPc /\ "none" \notin FailedIn) =>
          /\ \A t \in queue' \ queue :
                t.type = "reminder" /\ t.sub \in DueForReminder(now)
          /\ \A s \in DueForReminder(now) :
                LET k == DaysBetween(now, subs[s].validTill) IN
                /\ MarkerExists(s, k) => AddedFor(s) = {}
                /\ s \in FailedIn => AddedFor(s) = {}
                /\ (/\ ~MarkerExists(s, k)
                    /\ s \notin FailedIn
                    /\ ~UniqueLocked(queue, "reminder", s, k, subs[s].validTill))
                   => /\ Cardinality(AddedFor(s)) = 1
                      /\ \A t \in AddedFor(s) :
                            /\ t.k = k
                            /\ t.validTill = subs[s].validTill
                            /\ t.state = "pending"]_vars

\* the enqueue for one due subscription failed in this pass and the reminder
\* task of the other due subscription is in the queue
C26_Witness ==
    /\ reaperPc = "renewals"
    /\ \E e \in pollFaults :
          /\ e.pass = "reminders" /\ e.sub # "none" /\ e.at = now
          /\ \E t \in queue :
                t.type = "reminder" /\ t.sub # e.sub /\ t.enqueuedAt = now

\* the later of two instants
Later(a, b) == IF a > b THEN a ELSE b

\* the renewal tasks a step adds
AddedRenewals == {t \in queue' \ queue : t.type = "renewal"}

----------------------------------------------------------------------------
(* The worker handlers over a stored subscription and a delivered task *)

\* valid_till of the stored document and of the task payload, in hours from
\* now: past, now, inside the renewal window, its end, just beyond, a day ahead
HandledValidTills == {-4, 0, 5, 8, 9, 30}

HandledDocs ==
    [status : {"active", "cancelled", "expired"}, validTill : HandledValidTills,
     userId : Owners, frequency : Frequencies]

\* the tasks that wait in Redis: any type, with the valid_till and the offset
\* that were current when the task was enqueued
HandledTasks ==
    {[Task(type, s, k, validTill, 0) EXCEPT !.enqueuedAt = 0] :
        type \in {"reminder", "renewal", "expiration"}, s \in SubIds,
        k \in {1, 3}, validTill \in HandledValidTills}

\* one task is due in the queue; the subscription it names has been changed,
\* or kept, since the task was enqueued, and its owner is stored or not
InitHandlers ==
    /\ now = 0
    /\ subs \in [SubIds -> HandledDocs \cup {NoDoc}]
    /\ bills = IF Exists("s1") THEN <<StoredBill("s1", subs["s1"])>> ELSE <<>>
    /\ markers = [key \in SubIds \X ReminderDays |-> 0]
    /\ \E t \in HandledTasks : queue = {t}
    /\ workers = [w \in Workers |-> IdleWorker]
    /\ reqs = [r \in Reqs |-> IdleReq]
    /\ reaperPc = "idle"
    /\ nextTick = SchedulerInterval
    /\ reminderLog = <<>>
    /\ cancelWritten = {}
    /\ faults = 0
    /\ up = TRUE
    /\ stoppedAt = -1
    /\ users \in {Users, Users \ Owners}
    /\ cal = [pc |-> "none"]
    /\ pollFaults = {}
    /\ lastPoll = NoPoll
    /\ loop = [pc |-> "none"]

\* the worker goroutines
NextHandlers ==
    \E w \in Workers :
        \/ Deliver(w)
        \/ ReminderFetch(w) \/ ReminderSend(w) \/ ReminderMark(w)
        \/ RenewalFetch(w) \/ RenewCheck(w) \/ RenewBill(w) \/ RenewUpdate(w)
        \/ RenewConfirm(w)
        \/ ExpirationFetch(w) \/ ExpirationRead(w) \/ ExpirationWrite(w)

SpecHandlers == InitHandlers /\ [][NextHandlers]_vars

\* the status a task of the given type requires of its subscription
RequiredStatus(type) == IF type = "expiration" THEN "cancelled" ELSE "active"

\* worker w has read the subscription of its task and returns from the fetch
\* step in this step (the read itself did not fail)
Handles(w) ==
    /\ workers[w].pc = "fetch"
    /\ workers'[w] # workers[w]
    /\ Exists(workers[w].task.sub)
    /\ faults' = faults

\* the handler of worker w returns success and nothing but the queue changes:
\* no email, no bill, no marker, no subscription field
NoOpSuccess(w) ==
    /\ workers'[w] = IdleWorker
    /\ queue' = queue \ {workers[w].task}
    /\ subs' = subs
    /\ bills' = bills
    /\ markers' = markers
    /\ reminderLog' = reminderLog

\* C29: a handler that reads a status other than the one its task requires
\* (active for reminder and renewal, cancelled for expiration) returns success
\* and sends no email, creates no bill, writes no marker and changes no
\* subscription field
C29_WrongStatusIsNoOp ==
    [][\A w \in Workers :
          (/\ Handles(w)
           /\ subs[workers[w].task.sub].status # RequiredStatus(workers[w].task.type))
          => NoOpSuccess(w)]_vars

\* a task for a cancelled subscription past its valid_till was handled and is
\* gone, with the subscription still cancelled, its bill as it was and nothing
\* sent: the task was a reminder or a renewal
C29_Witness ==
    /\ queue = {}
    /\ \A w \in Workers : workers[w].pc = "idle"
    /\ faults = 0
    /\ reminderLog = <<>>
    /\ \E s \in DOMAIN subs :
          /\ subs[s].status = "cancelled"
          /\ subs[s].validTill <= now
          /\ bills = <<StoredBill(s, subs[s])>>

\* C30: the renewal handler changes nothing and succeeds when the stored
\* valid_till is later than now + H, the expiration handler when it is later
\* than now; the stored valid_till decides, whatever date the payload carries
C30_EarlyTaskIsNoOp ==
    [][\A w \in Workers :
          LET t == workers[w].task IN
          (/\ Handles(w)
           /\ subs[t.sub].status = RequiredStatus(t.type))
          => /\ (t.type = "renewal"
                    /\ subs[t.sub].validTill > now + RenewalHoursBeforeDay)
                   => NoOpSuccess(w)
             /\ (t.type = "renewal"
                    /\ subs[t.sub].validTill <= now + RenewalHoursBeforeDay)
                   => workers'[w].pc = "ren_check"
             /\ (t.type = "expiration" /\ subs[t.sub].validTill > now)
                   => NoOpSuccess(w)
             /\ (t.type = "expiration" /\ subs[t.sub].validTill <= now)
                   => workers'[w].pc = "exp_mark"]_vars

\* a task for an active subscription whose stored valid_till is later than
\* now + H was handled and is gone, and the subscription, its bill, the markers
\* and the mail log are as they were
C30_Witness ==
    /\ queue = {}
    /\ \A w \in Workers : workers[w].pc = "idle"
    /\ faults = 0
    /\ reminderLog = <<>>
    /\ \A key \in DOMAIN markers : markers[key] = 0
    /\ \E s \in DOMAIN subs :
          /\ subs[s].status = "active"
          /\ subs[s].validTill > now + RenewalHoursBeforeDay
          /\ bills = <<StoredBill(s, subs[s])>>

----------------------------------------------------------------------------
(* Reminder handler: the marker and the email *)

\* worker w returns from the step it is in
Steps(w) == workers'[w] # workers[w]

\* a reminder email for (s, k) has been dispatched
Mailed(log, s, k) == \E i \in DOMAIN log : log[i].sub = s /\ log[i].k = k

\* C31: the marker of (id, k) is written only by a handler whose reminder email
\* for (id, k) has been dispatched; a handler that finds no user for the
\* subscription, or whose dispatch fails, fails the task and writes no marker;
\* a handler whose dispatch succeeded completes the task also when the marker
\* write fails
C31_MarkerOnlyAfterSend ==
    [][/\ \A key \in DOMAIN markers :
             markers'[key] # markers[key] =>
                /\ Mailed(reminderLog, key[1], key[2])
                /\ \E w \in Workers :
                      /\ workers[w].pc = "rem_mark"
                      /\ workers[w].task.sub = key[1]
                      /\ workers[w].task.k = key[2]
       /\ \A w \in Workers :
             LET t == workers[w].task IN
             /\ (workers[w].pc = "rem_send" /\ Steps(w)
                    /\ (workers[w].doc.userId \notin users \/ faults' # faults))
                   => /\ reminderLog' = reminderLog
                      /\ markers' = markers
                      /\ queue' = Failed(queue, t)
             /\ (workers[w].pc = "rem_send" /\ Steps(w)
                    /\ reminderLog' # reminderLog)
                   => /\ queue' = queue
                      /\ markers' = markers
                      /\ workers'[w].pc = "rem_mark"
             /\ (workers[w].pc = "rem_mark" /\ Steps(w))
                   => /\ queue' = Completed(queue, t)
                      /\ faults' # faults => markers' = markers]_vars

\* a reminder email was dispatched, the marker write failed and the task is
\* gone from the queue: completed with the email on record and no marker
C31_Witness ==
    /\ queue = {}
    /\ \A w \in Workers : workers[w].pc = "idle"
    /\ faults = 1
    /\ \E i \in DOMAIN reminderLog :
          markers[<<reminderLog[i].sub, reminderLog[i].k>>] = 0

----------------------------------------------------------------------------
(* Renewal handler: the outcome of the task *)

\* C32: when the internal renew ends in conflict (the subscription is no
\* longer active, or its latest paid bill has not started: already renewed),
\* the renewal handler completes the task: the task leaves the queue and is
\* not retried
C32_RenewConflictCompletesTask ==
    [][\A w \in Workers :
          RenewOfUnrenewable(w) =>
             /\ workers'[w] = IdleWorker
             /\ queue' = Completed(queue, workers[w].task)]_vars

\* C33: once the renew has stored the new bill and the new valid_till, the
\* handler goes on to the confirmation and the task completes whatever the
\* confirmation meets: with the owner missing and with a failed dispatch the
\* task leaves the queue, is not retried, and bills and subscriptions stay as
\* the renew wrote them
C33_PersistedRenewalCompletes ==
    [][\A w \in Workers :
          LET t == workers[w].task IN
          /\ (workers[w].pc = "ren_update" /\ Steps(w) /\ subs' # subs)
                => /\ workers'[w].pc = "ren_confirm"
                   /\ queue' = queue
                   /\ subs'[t.sub].validTill = workers[w].bill.endDate
                   /\ \E i \in DOMAIN bills :
                         /\ bills[i].sub = t.sub
                         /\ bills[i].endDate = workers[w].bill.endDate
          /\ (workers[w].pc = "ren_confirm" /\ Steps(w))
                => /\ workers'[w] = IdleWorker
                   /\ queue' = Completed(queue, t)
                   /\ subs' = subs
                   /\ bills' = bills]_vars

\* a subscription whose owner is not stored was renewed and the task is gone:
\* two bills, valid_till at the end of the new one, nothing left in the queue
C33_Witness ==
    /\ queue = {}
    /\ \A w \in Workers : workers[w].pc = "idle"
    /\ \E s \in DOMAIN subs :
          /\ Exists(s)
          /\ subs[s].userId \notin users
          /\ Len(bills) = 2
          /\ bills[2].sub = s
          /\ bills[2].startDate = bills[1].endDate
          /\ subs[s].validTill = bills[2].endDate

----------------------------------------------------------------------------
(* Updates of a deleted subscription *)

\* C34: an update of a subscription whose document is gone (the expired mark
\* or the renewal of a worker, the cancel of a request, racing with the owner's
\* delete) writes nothing and ends in an error (not_found to the client, a
\* failed delivery in the worker); a document comes into being only by the
\* subscription write of a create, so a deleted subscription stays deleted
C34_UpdateOfDeletedIsNotFound ==
    [][/\ \A s \in DOMAIN subs :
             (~Exists(s) /\ subs'[s].status # "none")
                => \E r \in Reqs : reqs[r].pc = "cr_sub" /\ reqs[r].sub = s
       /\ \A w \in Workers :
             (/\ workers[w].pc \in {"exp_write", "ren_update"}
              /\ Steps(w)
              /\ ~Exists(workers[w].task.sub))
                => /\ subs' = subs
                   /\ queue' = Failed(queue, workers[w].task)
       /\ \A r \in Reqs :
             (/\ reqs[r].pc = "can_write"
              /\ reqs'[r] # reqs[r]
              /\ ~Exists(reqs[r].sub))
                => /\ subs' = subs
                   /\ reqs'[r].result = "not_found"]_vars

\* the owner cancelled and deleted a subscription while its renewal was between
\* the bill and the update: the update found no document, the delivery failed
\* (no store failure involved) and the subscription is still gone
C34_Witness ==
    \E t \in queue :
        /\ t.type = "renewal"
        /\ t.retried = 1
        /\ faults = 0
        /\ ~Exists(t.sub)
        /\ \E i \in DOMAIN bills :
              /\ bills[i].sub = t.sub
              /\ bills[i].startDate = t.validTill

----------------------------------------------------------------------------
(* Reminder handler: offsets without a template *)

\* the offsets the specification lists as having a template
ListedTemplateDays == {1, 2, 5, 7}

----------------------------------------------------------------------------
(* Bills: the period *)

\* C36: every stored bill ends strictly after it starts: the bill of a period
\* computed from any calendar start date with any of the four frequencies, and
\* every bill of the ledger
C36_BillEndsAfterStart ==
    /\ cal.pc = "billed" => DateBefore(cal.start, cal.result)
    /\ \A i \in DOMAIN bills : bills[i].endDate > bills[i].startDate

\* the bill of a monthly period that starts on Jan 31 is stored: it ends on
\* the last day of February
C36_Witness ==
    /\ cal.pc = "billed"
    /\ cal.frequency = "monthly"
    /\ cal.start.month = 1 /\ cal.start.day = 31
    /\ cal.result.month = 2

----------------------------------------------------------------------------
(* The scheduler loop under cancellation *)

\* a poll lasts less than this many hours
PollHours == 1

\* Start: the ticker is created, then the first poll runs at once
InitLoop ==
    /\ now = 0
    /\ subs = [s \in SubIds |-> NoDoc]
    /\ bills = <<>>
    /\ markers = [key \in SubIds \X ReminderDays |-> 0]
    /\ queue = {}
    /\ workers = [w \in Workers |-> IdleWorker]
    /\ reqs = [r \in Reqs |-> IdleReq]
    /\ reaperPc = "idle"
    /\ nextTick = 0
    /\ reminderLog = <<>>
    /\ cancelWritten = {}
    /\ faults = MaxFaults
    /\ up = TRUE
    /\ stoppedAt = -1
    /\ users = Users
    /\ cal = [pc |-> "none"]
    /\ pollFaults = {}
    /\ lastPoll = NoPoll
    /\ loop = [pc |-> "poll", cancelled |-> FALSE, tick |-> FALSE,
               fireAt |-> SchedulerInterval, began |-> 0, after |-> 0]

\* SIGINT or SIGTERM: the context of signal.NotifyContext is cancelled
LoopCancel ==
    /\ loop.pc \in {"poll", "select"}
    /\ ~loop.cancelled
    /\ loop' = [loop EXCEPT !.cancelled = TRUE]
    /\ UNCHANGED <<now, subs, bills, markers, queue, workers, reqs, reaperPc,
                   nextTick, reminderLog, cancelWritten, faults, up, stoppedAt,
                   users, cal, pollFaults, lastPoll>>

\* an hour passes while the loop waits in the select with no channel ready, or
\* inside a poll; the ticker sends on its channel of capacity one when its
\* period is over (a tick that finds the channel full is dropped)
LoopClock ==
    /\ now < MaxTime
    /\ \/ loop.pc = "select" /\ ~loop.tick /\ ~loop.cancelled
       \/ loop.pc = "poll" /\ now < loop.began + PollHours
    /\ now' = now + 1
    /\ loop' = IF now + 1 >= loop.fireAt
               THEN [loop EXCEPT !.tick = TRUE, !.fireAt = @ + SchedulerInterval]
               ELSE loop
    /\ UNCHANGED <<subs, bills, markers, queue, workers, reqs, reaperPc,
                   nextTick, reminderLog, cancelWritten, faults, up, stoppedAt,
                   users, cal, pollFaults, lastPoll>>

\* pollSubscriptions returns (its errors are logged, also those of a cancelled
\* context) and the loop comes to the select
LoopPollEnd ==
    /\ loop.pc = "poll"
    /\ loop' = [loop EXCEPT !.pc = "select"]
    /\ UNCHANGED <<now, subs, bills, markers, queue, workers, reqs, reaperPc,
                   nextTick, reminderLog, cancelWritten, faults, up, stoppedAt,
                   users, cal, pollFaults, lastPoll>>

\* a loop that looks at the context only when a tick arrives
LoopSelectDone_OnTick ==
    /\ loop.pc = "select"
    /\ loop.cancelled
    /\ loop.tick
    /\ loop' = [loop EXCEPT !.pc = "returned", !.tick = FALSE]
    /\ UNCHANGED <<now, subs, bills, markers, queue, workers, reqs, reaperPc,
                   nextTick, reminderLog, cancelWritten, faults, up, stoppedAt,
                   users, cal, pollFaults, lastPoll>>

\* select, case <-ctx.Done(): Start returns
LoopSelectDone ==
    /\ loop.pc = "select"
    /\ loop.cancelled
    /\ loop' = [loop EXCEPT !.pc = "returned"]
    /\ UNCHANGED <<now, subs, bills, markers, queue, workers, reqs, reaperPc,
                   nextTick, reminderLog, cancelWritten, faults, up, stoppedAt,
                   users, cal, pollFaults, lastPoll>>

\* select, case <-ticker.C: a poll starts (with both channels ready the select
\* takes either case)
LoopSelectTick ==
    /\ loop.pc = "select"
    /\ loop.tick
    /\ loop' = [loop EXCEPT !.pc = "poll", !.tick = FALSE, !.began = now,
                            !.after = IF loop.cancelled THEN @ + 1 ELSE @]
    /\ UNCHANGED <<now, subs, bills, markers, queue, workers, reqs, reaperPc,
                   nextTick, reminderLog, cancelWritten, faults, up, stoppedAt,
                   users, cal, pollFaults, lastPoll>>

\* the steps of the scheduler goroutine
LoopStep ==
    \/ LoopPollEnd
    \/ LoopSelectDone
    \/ LoopSelectTick

NextLoop ==
    \/ LoopCancel
    \/ LoopClock
    \/ LoopStep

\* the scheduler goroutine keeps running; the signal and the passing of time
\* are not forced
SpecLoop == InitLoop /\ [][NextLoop]_vars /\ WF_vars(LoopStep)

\* C37: once the context is cancelled the scheduler loop returns, without the
\* ticker having to fire again, and it starts at most one poll after the
\* cancellation
C37_LoopReturnsAfterCancel ==
    /\ [](loop.pc # "none" => loop.after <= 1)
    /\ (loop.pc # "none" /\ loop.cancelled) ~> (loop.pc = "returned")

\* the signal came with a tick waiting in the channel: the select took the
\* tick, one more poll ran, and the loop has returned before the next tick
C37_Witness ==
    /\ loop.pc = "returned"
    /\ loop.after = 1
    /\ now < loop.fireAt

----------------------------------------------------------------------------
(* Renewal pass: the delivery time *)

----------------------------------------------------------------------------
(* Active subscriptions the polls pass over *)

\* a renewal task of s that can still run
RenewalInFlight(s) ==
    \E t \in queue : t.type = "renewal" /\ t.sub = s /\ t.state \in {"pending", "active"}

----------------------------------------------------------------------------
(* valid_till of a cancelled subscription and its paid bills *)

\* C40: in every reachable state the valid_till of a cancelled subscription
\* is the end_date of its latest bill that is still paid (refunded bills do
\* not count), whether the cancel refunded the pre-paid next period or not
C40_CancelledEndsWithLatestPaidBill ==
    \A s \in DOMAIN subs :
       (Exists(s) /\ subs[s].status = "cancelled")
          => /\ HasRecentBill(s)
             /\ subs[s].validTill = bills[GetRecentBill(s)].endDate

====
